---- MODULE Spec2Model ----
(***************************************************************************)
(* Model of the public blog worker: the post, comment and cache operations *)
(* of the service layer (PostService, CommentService), the repositories    *)
(* they call, the cache utilities, and the router/handler path of the      *)
(* HTTP surface.  The relational store is the variables posts and          *)
(* comments, the KV cache is the variable cache, and every request is a    *)
(* slot of req that advances one awaited call at a time, so that requests  *)
(* interleave exactly at the await points of the code.                     *)
(*                                                                         *)
(* Strings whose characters matter (path segments, slugs, cache keys,      *)
(* comment fields, messages of untyped errors) are sequences of            *)
(* one-character strings.                                                  *)
(***************************************************************************)
EXTENDS Integers, Sequences, FiniteSets, TLC

VARIABLES posts, tags, postTags, comments, cache, hasCache, clock, req, views0

vars == <<posts, tags, postTags, comments, cache, hasCache, clock, req, views0>>

\* What no request changes: whether the environment binds a cache (env.CACHE)
\* and views0, the record of the view count each post started with.
config == <<hasCache, views0>>

\* The relational store.
store == <<posts, tags, postTags, comments>>

----------------------------------------------------------------------------
(* Bounds of the model *)

\* The post ids in use are 1..MaxPosts.
MaxPosts == 2

\* The number of requests that run concurrently.
MaxReqs == 2

\* The number of redirects a client follows.
MaxHops == 2

\* The clock runs from 0 to MaxClock.
MaxClock == 1

PostIds == 1..MaxPosts

Reqs == 1..MaxReqs

----------------------------------------------------------------------------
(* Strings *)

\* The characters the model uses, in ascending order of their code unit.
CharOrder ==
  << " ", "&", "'", "(", ")", ",", "-", "/",
     "0", "1", "2", "3", "4", "5", "6", "7", "8", "9", "=", "?",
     "A", "B", "C", "D", "E", "F", "G", "H", "I", "J", "K", "L", "M",
     "N", "O", "P", "Q", "R", "S", "T", "U", "V", "W", "X", "Y", "Z",
     "a", "b", "c", "d", "e", "f", "g", "h", "i", "j", "k", "l", "m",
     "n", "o", "p", "q", "r", "s", "t", "u", "v", "w", "x", "y", "z" >>

Code(c) == CHOOSE i \in 1..Len(CharOrder) : CharOrder[i] = c

Digits == {"0", "1", "2", "3", "4", "5", "6", "7", "8", "9"}

LowerAlnum == Digits \cup
  {"a", "b", "c", "d", "e", "f", "g", "h", "i", "j", "k", "l", "m",
   "n", "o", "p", "q", "r", "s", "t", "u", "v", "w", "x", "y", "z"}

DigitVal(c) == Code(c) - Code("0")

DigitChar(d) == CharOrder[Code("0") + d]

\* String(n) of a JavaScript integer, as template literals format it.
RECURSIVE NatToStr(_)
NatToStr(n) == IF n < 10 THEN <<DigitChar(n)>>
               ELSE NatToStr(n \div 10) \o <<DigitChar(n % 10)>>

IntToStr(n) == IF n < 0 THEN <<"-">> \o NatToStr(0 - n) ELSE NatToStr(n)

\* s.startsWith(p): the prefix match of the KV list({prefix}) call.
StartsWith(s, p) == Len(p) <= Len(s) /\ SubSeq(s, 1, Len(p)) = p

\* s.includes(p)
Includes(s, p) ==
  \E i \in 1..(Len(s) - Len(p) + 1) : SubSeq(s, i, i + Len(p) - 1) = p

\* s.trim(), for the whitespace the model uses (the space).
RECURSIVE TrimStart(_)
TrimStart(s) == IF s # <<>> /\ Head(s) = " " THEN TrimStart(Tail(s)) ELSE s

RECURSIVE TrimEnd(_)
TrimEnd(s) == IF s # <<>> /\ s[Len(s)] = " "
              THEN TrimEnd(SubSeq(s, 1, Len(s) - 1)) ELSE s

Trim(s) == TrimEnd(TrimStart(s))

\* The longest prefix of s made of decimal digits.
RECURSIVE DigitPrefix(_)
DigitPrefix(s) == IF s # <<>> /\ Head(s) \in Digits
                  THEN <<Head(s)>> \o DigitPrefix(Tail(s)) ELSE <<>>

RECURSIVE DigitsValue(_)
DigitsValue(d) == IF d = <<>> THEN 0
                  ELSE 10 * DigitsValue(SubSeq(d, 1, Len(d) - 1)) + DigitVal(d[Len(d)])

NaN == [nan |-> TRUE, val |-> 0]

\* parseInt(s, 10): leading whitespace, an optional sign, then the longest run
\* of digits; NaN when there is no digit.
ParseInt(s) ==
  LET t == TrimStart(s)
      neg == t # <<>> /\ Head(t) = "-"
      u == IF neg THEN Tail(t) ELSE t
      d == DigitPrefix(u)
  IN IF d = <<>> THEN NaN
     ELSE [nan |-> FALSE, val |-> IF neg THEN 0 - DigitsValue(d) ELSE DigitsValue(d)]

\* /^\d+$/.test(s)
IsNumericId(s) == s # <<>> /\ \A i \in 1..Len(s) : s[i] \in Digits

\* /^[a-z0-9]+(?:-[a-z0-9]+)*$/.test(s)
SlugPattern(s) ==
  /\ s # <<>>
  /\ \A i \in 1..Len(s) : s[i] \in LowerAlnum \cup {"-"}
  /\ s[1] # "-" /\ s[Len(s)] # "-"
  /\ \A i \in 1..(Len(s) - 1) : ~(s[i] = "-" /\ s[i + 1] = "-")

\* a < b in the order of Array.prototype.sort() on strings (by code unit).
LexLess(a, b) ==
  \/ Len(a) < Len(b) /\ SubSeq(b, 1, Len(a)) = a
  \/ \E i \in 1..Len(a) :
       /\ i <= Len(b)
       /\ SubSeq(a, 1, i - 1) = SubSeq(b, 1, i - 1)
       /\ Code(a[i]) < Code(b[i])

RECURSIVE SortStrings(_)
SortStrings(S) ==
  IF S = {} THEN <<>>
  ELSE LET m == CHOOSE x \in S : \A y \in S \ {x} : LexLess(x, y)
       IN <<m>> \o SortStrings(S \ {m})

\* A join that keeps the first part only.
JoinFirstOnly(parts, sep) == IF parts = <<>> THEN <<>> ELSE parts[1]

RECURSIVE Join(_, _)
Join(parts, sep) ==
  IF parts = <<>> THEN <<>>
  ELSE IF Len(parts) = 1 THEN parts[1]
  ELSE parts[1] \o sep \o Join(Tail(parts), sep)

----------------------------------------------------------------------------
(* Errors and responses *)

MsgPostNotFound == <<"P", "o", "s", "t", " ", "n", "o", "t", " ", "f", "o", "u", "n", "d">>

MsgPostIdRequired == <<"P", "o", "s", "t", " ", "I", "D", " ", "i", "s", " ", "r", "e", "q", "u", "i", "r", "e", "d">>

MsgInvalidPostId == <<"I", "n", "v", "a", "l", "i", "d", " ", "p", "o", "s", "t", " ", "I", "D">>

MsgSlugRequired == <<"S", "l", "u", "g", " ", "p", "a", "r", "a", "m", "e", "t", "e", "r", " ", "i", "s", " ", "r", "e", "q", "u", "i", "r", "e", "d">>

MsgUnexpected == <<"A", "n", " ", "u", "n", "e", "x", "p", "e", "c", "t", "e", "d", " ", "e", "r", "r", "o", "r", " ", "o", "c", "c", "u", "r", "r", "e", "d">>

\* The message V8 gives the TypeError of reading a property of null.
MsgNullAuthor == <<"C", "a", "n", "n", "o", "t", " ", "r", "e", "a", "d", " ", "p", "r", "o", "p", "e", "r", "t", "i", "e", "s", " ", "o", "f", " ", "n", "u", "l", "l", " ", "(", "r", "e", "a", "d", "i", "n", "g", " ", "'", "a", "u", "t", "h", "o", "r", "'", ")">>

APIErrorNames == {"APIError", "ValidationError", "NotFoundError", "UnauthorizedError",
                  "ForbiddenError", "ConflictError", "InternalServerError"}

ValidationError(message) == [name |-> "ValidationError", status |-> 400, message |-> message]

NotFoundError(message) == [name |-> "NotFoundError", status |-> 404, message |-> message]

UnauthorizedError(message) == [name |-> "UnauthorizedError", status |-> 401, message |-> message]

ForbiddenError(message) == [name |-> "ForbiddenError", status |-> 403, message |-> message]

ConflictError(message) == [name |-> "ConflictError", status |-> 409, message |-> message]

InternalServerError(message) == [name |-> "InternalServerError", status |-> 500, message |-> message]

\* An error that is not an APIError: it has a name and a message, no status.
TypeError(message) == [name |-> "TypeError", message |-> message]

\* new Error(message)
Error(message) == [name |-> "Error", message |-> message]

\* A conversion that classifies every error by its message.
toAPIErrorByMessage(error) ==
  IF Includes(error.message, <<"n", "o", "t", " ", "f", "o", "u", "n", "d">>) THEN NotFoundError(error.message)
  ELSE InternalServerError(error.message)

toAPIError(error) ==
  IF error.name \in APIErrorNames THEN error
  ELSE IF Includes(error.message, <<"n", "o", "t", " ", "f", "o", "u", "n", "d">>)
    THEN NotFoundError(error.message)
  ELSE IF \/ Includes(error.message, <<"u", "n", "a", "u", "t", "h", "o", "r", "i", "z", "e", "d">>)
          \/ Includes(error.message, <<"a", "u", "t", "h", "e", "n", "t", "i", "c", "a", "t", "i", "o", "n">>)
    THEN UnauthorizedError(error.message)
  ELSE IF \/ Includes(error.message, <<"f", "o", "r", "b", "i", "d", "d", "e", "n">>)
          \/ Includes(error.message, <<"p", "e", "r", "m", "i", "s", "s", "i", "o", "n">>)
    THEN ForbiddenError(error.message)
  ELSE IF \/ Includes(error.message, <<"v", "a", "l", "i", "d", "a", "t", "i", "o", "n">>)
          \/ Includes(error.message, <<"i", "n", "v", "a", "l", "i", "d">>)
    THEN ValidationError(error.message)
  ELSE IF \/ Includes(error.message, <<"c", "o", "n", "f", "l", "i", "c", "t">>)
          \/ Includes(error.message, <<"d", "u", "p", "l", "i", "c", "a", "t", "e">>)
    THEN ConflictError(error.message)
  ELSE InternalServerError(IF error.message # <<>> THEN error.message ELSE MsgUnexpected)

\* JavaScript null.
Null == [null |-> TRUE]

\* new Response(JSON.stringify(data), {status}): the status and the parsed body.
jsonResponse(data, status) == [status |-> status, body |-> data]

errorResponse(message, status) ==
  jsonResponse([success |-> FALSE, data |-> Null,
                error |-> [code |-> status, message |-> message]], status)

\* The {success: true, data, error: null} envelope every handler builds.
SuccessEnvelope(data) == [success |-> TRUE, data |-> data, error |-> Null]

\* The outcome of a service call: a returned value or a thrown error.
Returned(value) == [ok |-> TRUE, value |-> value]

Thrown(error) == [ok |-> FALSE, error |-> error]

NoResult == [pending |-> TRUE]

NoResponse == [status |-> 0]

\* try { data = await service...; return jsonResponse({success, data, error}, 200) }
\* catch (error) { apiError = toAPIError(error); return errorResponse(...) }
HandlerResponse(result) ==
  IF result.ok THEN jsonResponse(SuccessEnvelope(result.value), 200)
  ELSE LET apiError == toAPIError(result.error)
       IN errorResponse(apiError.message, apiError.status)

----------------------------------------------------------------------------
(* The relational store *)

PostStates == {"published", "draft"}

\* validateSlug: the slugs of the model are the samples the pattern accepts.
SlugSamples ==
  { <<"a">>, <<"1">>, <<"2">>, <<"3">>, <<"a", "-", "1">>, <<"-", "a">>, <<"a", "-">> }

Slugs == {s \in SlugSamples : SlugPattern(s)}

\* The slug a post gets where the slug is not what is varied: "p1", "p2", ...
DefaultSlug(i) == <<"p">> \o IntToStr(i)

\* The view count posts start with.
ViewCounts == {10}

\* A row of posts; the row of id i is posts[i], a deleted or never created
\* post is outside DOMAIN posts.  Slug is unique among posts.
PostTables(slugs, views) ==
  UNION {{t \in [E -> [state : PostStates, slug : slugs, views : views]] :
            \A i, j \in E : i # j => t[i].slug # t[j].slug} : E \in SUBSET PostIds}

\* The posts tables whose slugs are the default ones.
DefaultSlugTables(views) ==
  {t \in PostTables({DefaultSlug(i) : i \in PostIds}, views) :
     \A i \in DOMAIN t : t[i].slug = DefaultSlug(i)}

\* A lookup by id that leaves the state filter out.
findByIdAnyState(table, id) ==
  IF id \in DOMAIN table
  THEN [id |-> id, slug |-> table[id].slug, state |-> table[id].state,
        views |-> table[id].views]
  ELSE Null

\* SELECT ... FROM posts WHERE id = ? AND state = 'published'  (first())
findById(table, id) ==
  IF id \in DOMAIN table /\ table[id].state = "published"
  THEN [id |-> id, slug |-> table[id].slug, state |-> table[id].state,
        views |-> table[id].views]
  ELSE Null

\* SELECT ... FROM posts WHERE slug = ? AND state = 'published'  (first())
findBySlug(table, slug) ==
  LET hit == {i \in DOMAIN table : table[i].slug = slug /\ table[i].state = "published"}
  IN IF hit = {} THEN Null
     ELSE LET i == CHOOSE i \in hit : TRUE
          IN [id |-> i, slug |-> table[i].slug, state |-> table[i].state,
              views |-> table[i].views]

\* An UPDATE that is lost.
incrementViewsLost(table, id) == table

\* An UPDATE without the state filter.
incrementViewsAnyState(table, id) ==
  IF id \in DOMAIN table THEN [table EXCEPT ![id].views = @ + 1] ELSE table

\* UPDATE posts SET views = views + 1 WHERE id = ? AND state = 'published'
incrementViews(table, id) ==
  IF id \in DOMAIN table /\ table[id].state = "published"
  THEN [table EXCEPT ![id].views = @ + 1]
  ELSE table

\* A read of the views that answers 0 for a row that is not there.
getViewsOrZero(table, id) ==
  [null |-> FALSE, views |-> IF id \in DOMAIN table THEN table[id].views ELSE 0]

\* SELECT views FROM posts WHERE id = ?  (result ? result.views : null)
getViews(table, id) ==
  IF id \in DOMAIN table THEN [null |-> FALSE, views |-> table[id].views] ELSE Null

\* An existence check that leaves the state filter out.
postExistsAnyState(table, id) == id \in DOMAIN table

\* SELECT id FROM posts WHERE id = ? AND state = 'published'  (result !== null)
postExists(table, id) == id \in DOMAIN table /\ table[id].state = "published"

\* SELECT t.name FROM tags t INNER JOIN post_tags pt ON t.id = pt.tag_id
\* WHERE pt.post_id = ? ORDER BY t.name: a row per link, in ascending order of
\* the name (tag names are unique).  A row of tags is [id, name, postCount],
\* a row of post_tags is [postId, tagId].
getTagsForPost(tagRows, links, postId) ==
  SortStrings({t.name : t \in {t \in tagRows :
                 \E l \in links : l.postId = postId /\ l.tagId = t.id}})

----------------------------------------------------------------------------
(* The KV cache and its keys *)

PostsPath == <<"/", "p", "o", "s", "t", "s">>

CommentsPath == <<"/", "c", "o", "m", "m", "e", "n", "t", "s">>

\* A key built from the entries in the order of their insertion.
generateCacheKeyUnsorted(path, params) ==
  LET sortedParams == Join([i \in 1..Len(params) |-> params[i][1] \o <<"=">> \o params[i][2]],
                           <<"&">>)
  IN IF sortedParams # <<>> THEN path \o <<"?">> \o sortedParams ELSE path

\* params is the object's entries in insertion order: a sequence of
\* <<key, value>> pairs with distinct keys.
generateCacheKey(path, params) ==
  LET keys == SortStrings({params[i][1] : i \in 1..Len(params)})
      value(k) == (CHOOSE i \in 1..Len(params) : params[i][1] = k)
      pair(k) == k \o <<"=">> \o params[value(k)][2]
      sortedParams == Join([i \in 1..Len(keys) |-> pair(keys[i])], <<"&">>)
  IN IF sortedParams # <<>> THEN path \o <<"?">> \o sortedParams ELSE path

\* `/posts/${postIdOrSlug}`
PostKey(segment) == PostsPath \o <<"/">> \o segment

\* `/comments/${postId}`
CommentsKey(postId) == CommentsPath \o <<"/">> \o IntToStr(postId)

\* cache.delete(key), wrapped by invalidateCache.
invalidateCacheKept(kv, key) == kv

invalidateCache(kv, key) == [k \in DOMAIN kv \ {key} |-> kv[k]]

\* cache.list({prefix}) then cache.delete of every listed key.
invalidateCacheByPrefix(kv, prefix) ==
  [k \in {k \in DOMAIN kv : ~StartsWith(k, prefix)} |-> kv[k]]

\* The key prefix invalidatePostCache clears: "/posts?".
PostListPrefix == PostsPath \o <<"?">>

----------------------------------------------------------------------------
(* Requests *)

\* A request slot.  op is the operation, pc the awaited call it is about to
\* make, seg the path segment it was given, id the parsed post id, local the
\* value a finished call left in a local variable, result the outcome of the
\* service call and resp the HTTP response of the handler.  entry is the
\* segment of the first request of a client that follows redirects and hops
\* the number of redirects followed; seq records that every request started
\* earlier had finished when this one started.  queries counts the statements
\* a read request (list of posts, list of comments) has sent to the
\* relational store, and threw records that a call of the KV cache made for
\* the request threw.  query is the query string of the request, as a function
\* from the names of its parameters to their values.
IdleReq ==
  [op |-> "idle", pc |-> "idle", seg |-> <<>>, body |-> Null, id |-> 0,
   local |-> Null, result |-> NoResult, resp |-> NoResponse,
   entry |-> <<>>, hops |-> 0, seq |-> FALSE, routed |-> FALSE,
   queries |-> 0, threw |-> FALSE, query |-> <<>>]

\* Slots are interchangeable: they are taken in ascending order.
CanStart(r) == req[r].op = "idle" /\ \A q \in Reqs : q < r => req[q].op # "idle"

Sequential(r) == \A q \in Reqs : q < r => req[q].pc = "done"

Begin(r, op, seg) ==
  [IdleReq EXCEPT !.op = op, !.seg = seg, !.entry = seg, !.seq = Sequential(r)]

\* The service call ends with result and the handler answers with resp.
FinishedWith(rec, result, resp) ==
  [rec EXCEPT !.pc = "done", !.result = result, !.resp = resp]

Finished(rec, result) == FinishedWith(rec, result, HandlerResponse(result))

Done(r) == req[r].pc = "done"

----------------------------------------------------------------------------
(* PATCH /posts/:postId/views -- PostService.incrementPostViews *)

\* The postId values requests are made with.
PostIdInputs == {IntToStr(n) : n \in 1..(MaxPosts + 1)} \cup {<<>>, <<"a">>}

\* The checks of postId, then await this.postRepository.incrementViews(id).
\* The code before the UPDATE touches nothing shared, so the request starts
\* at the moment its UPDATE runs.
StartIncrement(r, postId) ==
  /\ CanStart(r)
  /\ LET rec == Begin(r, "incrementPostViews", postId)
         id == ParseInt(postId)
         rejected == postId = <<>> \/ id.nan
     IN /\ req' = [req EXCEPT ![r] =
             IF postId = <<>>
             THEN Finished(rec, Thrown(ValidationError(MsgPostIdRequired)))
             ELSE IF id.nan
             THEN Finished(rec, Thrown(ValidationError(MsgInvalidPostId)))
             ELSE [rec EXCEPT !.pc = "getViews", !.id = id.val]]
        /\ posts' = IF rejected THEN posts ELSE incrementViews(posts, id.val)
  /\ UNCHANGED <<tags, postTags, comments, cache, config, clock>>

\* const views = await this.postRepository.getViews(id) and the code up to
\* the next await: the null check, the test of env.CACHE.
GetViewsStep(r) ==
  /\ req[r].op = "incrementPostViews" /\ req[r].pc = "getViews"
  /\ LET views == getViews(posts, req[r].id)
     IN req' = [req EXCEPT ![r] =
          IF views = Null THEN Finished(@, Thrown(NotFoundError(MsgPostNotFound)))
          ELSE IF hasCache THEN [@ EXCEPT !.pc = "invalidateCache", !.local = views]
          ELSE Finished(@, Returned([views |-> views.views]))]
  /\ UNCHANGED <<store, cache, config, clock>>

\* invalidatePostCache: await invalidateCache(cache, `/posts/${postIdOrSlug}`)
InvalidatePostKeyStep(r) ==
  /\ req[r].op = "incrementPostViews" /\ req[r].pc = "invalidateCache"
  /\ cache' = invalidateCache(cache, PostKey(IntToStr(req[r].id)))
  /\ req' = [req EXCEPT ![r].pc = "invalidateCacheByPrefix"]
  /\ UNCHANGED <<store, config, clock>>

\* invalidatePostCache: await invalidateCacheByPrefix(cache, "/posts?"), then
\* return { views }.
InvalidatePostListStep(r) ==
  /\ req[r].op = "incrementPostViews" /\ req[r].pc = "invalidateCacheByPrefix"
  /\ cache' = invalidateCacheByPrefix(cache, PostListPrefix)
  /\ req' = [req EXCEPT ![r] = Finished(@, Returned([views |-> @.local.views]))]
  /\ UNCHANGED <<store, config, clock>>

IncrementPostViews(r) ==
  \/ \E postId \in PostIdInputs : StartIncrement(r, postId)
  \/ GetViewsStep(r)
  \/ InvalidatePostKeyStep(r)
  \/ InvalidatePostListStep(r)

----------------------------------------------------------------------------
(* The router *)

\* s.split(sep) for a one-character separator.
RECURSIVE Split(_, _)
Split(s, sep) ==
  IF \A i \in 1..Len(s) : s[i] # sep THEN <<s>>
  ELSE LET i == CHOOSE i \in 1..Len(s) :
                  s[i] = sep /\ \A j \in 1..(i - 1) : s[j] # sep
       IN <<SubSeq(s, 1, i - 1)>> \o Split(SubSeq(s, i + 1, Len(s)), sep)

\* parts.filter(Boolean): the empty strings dropped.
RECURSIVE FilterNonEmpty(_)
FilterNonEmpty(parts) ==
  IF parts = <<>> THEN <<>>
  ELSE IF Head(parts) = <<>> THEN FilterNonEmpty(Tail(parts))
  ELSE <<Head(parts)>> \o FilterNonEmpty(Tail(parts))

\* decodeURIComponent(s) of a path part without "%": the part itself.  The
\* paths of the model are built from slugs and decimal numbers.
decodeURIComponent(s) == s

routes ==
  << [method |-> "GET", pattern |-> <<"/", "p", "o", "s", "t", "s">>,
      handler |-> "handleGetPosts"],
     [method |-> "GET", pattern |-> <<"/", "p", "o", "s", "t", "s", "/", ":", "s", "l", "u", "g">>,
      handler |-> "handleGetPostBySlug"],
     [method |-> "PATCH",
      pattern |-> <<"/", "p", "o", "s", "t", "s", "/", ":", "p", "o", "s", "t", "I", "d", "/", "v", "i", "e", "w", "s">>,
      handler |-> "handleIncrementViews"],
     [method |-> "GET",
      pattern |-> <<"/", "c", "o", "m", "m", "e", "n", "t", "s", "/", ":", "p", "o", "s", "t", "I", "d">>,
      handler |-> "handleGetComments"],
     [method |-> "POST",
      pattern |-> <<"/", "c", "o", "m", "m", "e", "n", "t", "s", "/", ":", "p", "o", "s", "t", "I", "d">>,
      handler |-> "handleCreateComment"],
     [method |-> "GET", pattern |-> <<"/", "t", "a", "g", "s">>, handler |-> "handleGetTags"],
     [method |-> "GET", pattern |-> <<"/", "s", "i", "t", "e", "m", "a", "p">>,
      handler |-> "handleGetSitemap"] >>

\* matchPattern: Null, or the params object as a function from the parameter
\* names of the pattern to the decoded path parts.
matchPattern(pattern, path) ==
  LET patternParts == FilterNonEmpty(Split(pattern, "/"))
      pathParts == FilterNonEmpty(Split(path, "/"))
      n == Len(patternParts)
      isParam(i) == Head(patternParts[i]) = ":"
  IN IF n # Len(pathParts) THEN Null
     ELSE IF \E i \in 1..n : ~isParam(i) /\ patternParts[i] # pathParts[i] THEN Null
     ELSE [name \in {Tail(patternParts[i]) : i \in {j \in 1..n : isParam(j)}} |->
             decodeURIComponent(
               pathParts[CHOOSE i \in 1..n : isParam(i) /\ Tail(patternParts[i]) = name])]

\* findRoute: the first route of the method whose pattern matches, or Null.
findRoute(method, pathname) ==
  LET hits == {i \in 1..Len(routes) :
                 /\ routes[i].method = method
                 /\ matchPattern(routes[i].pattern, pathname) # Null}
  IN IF hits = {} THEN Null
     ELSE LET i == CHOOSE i \in hits : \A j \in hits : i <= j
          IN [handler |-> routes[i].handler,
              params |-> matchPattern(routes[i].pattern, pathname)]

MsgRouteNotFound == <<"N", "o", "t", " ", "F", "o", "u", "n", "d">>

ParamSlug == <<"s", "l", "u", "g">>

ParamPostId == <<"p", "o", "s", "t", "I", "d">>

----------------------------------------------------------------------------
(* GET /posts/:slug -- handleGetPostBySlug, PostService.getPostBySlug *)

\* url.origin of the requests.
Origin == <<"h", "t", "t", "p", "s", ":", "/", "/", "b", "l", "o", "g">>

\* The handler's answer: 301 with Location `${url.origin}/posts/${result.slug}`
\* for a redirect result, else the envelope of result.data or of the error.
GetPostResponse(result) ==
  IF ~result.ok THEN HandlerResponse(result)
  ELSE IF result.value.redirect
  THEN [status |-> 301, body |-> Null, location |-> Origin \o PostKey(result.value.slug)]
  ELSE jsonResponse(SuccessEnvelope(result.value.data), 200)

FinishedGetPost(rec, result) == FinishedWith(rec, result, GetPostResponse(result))

\* getPostBySlug up to the end of its first query: the check of slug, then
\* findById for a numeric slug, findBySlug otherwise.
GetPostBySlugHead(rec, slug) ==
  IF slug = <<>> THEN FinishedGetPost(rec, Thrown(ValidationError(MsgSlugRequired)))
  ELSE IF IsNumericId(slug)
  THEN LET post == findById(posts, ParseInt(slug).val)
       IN IF post = Null THEN FinishedGetPost(rec, Thrown(NotFoundError(MsgPostNotFound)))
          ELSE FinishedGetPost(rec, Returned([redirect |-> TRUE, slug |-> post.slug]))
  ELSE LET post == findBySlug(posts, slug)
       IN IF post = Null THEN FinishedGetPost(rec, Thrown(NotFoundError(MsgPostNotFound)))
          ELSE [rec EXCEPT !.pc = "getTagsForPost", !.local = post]

\* The router's answer to GET pathname for the request record rec: 404 when
\* no route matches, else the start of handleGetPostBySlug.
RouteGetPost(rec, pathname) ==
  LET match == findRoute("GET", pathname)
  IN IF match = Null
     THEN FinishedWith(rec, NoResult, errorResponse(MsgRouteNotFound, 404))
     ELSE GetPostBySlugHead([rec EXCEPT !.seg = match.params[ParamSlug]],
                            match.params[ParamSlug])

\* The path segments GET /posts/{segment} is requested with.
SlugInputs ==
  Slugs \cup {IntToStr(n) : n \in 0..(MaxPosts + 1)}
        \cup {<<"0", "1">>, <<"1", "2">>, <<"b">>}

\* A client requests GET /posts/{segment}.
StartGetPost(r, segment) ==
  /\ CanStart(r)
  /\ findRoute("GET", PostKey(segment)) # Null
  /\ findRoute("GET", PostKey(segment)).handler = "handleGetPostBySlug"
  /\ req' = [req EXCEPT ![r] =
       RouteGetPost(Begin(r, "getPostBySlug", segment), PostKey(segment))]
  /\ UNCHANGED <<store, cache, config, clock>>

\* const tags = await this.postRepository.getTagsForPost(post.id), then the
\* detail is returned.
GetTagsForPostStep(r) ==
  /\ req[r].op = "getPostBySlug" /\ req[r].pc = "getTagsForPost"
  /\ LET post == req[r].local
         data == [id |-> post.id, slug |-> post.slug,
                  tags |-> getTagsForPost(tags, postTags, post.id),
                  views |-> post.views]
     IN req' = [req EXCEPT ![r] =
                  FinishedGetPost(@, Returned([redirect |-> FALSE, data |-> data]))]
  /\ UNCHANGED <<store, cache, config, clock>>

\* new URL(location).pathname
Pathname(location) == SubSeq(location, Len(Origin) + 1, Len(location))

\* The client follows the redirect it received: GET of the Location.
FollowRedirect(r) ==
  /\ req[r].op = "getPostBySlug" /\ Done(r)
  /\ req[r].resp.status = 301
  /\ req[r].hops < MaxHops
  /\ req' = [req EXCEPT ![r] =
       RouteGetPost([@ EXCEPT !.pc = "route", !.hops = @ + 1, !.local = Null,
                              !.result = NoResult, !.resp = NoResponse],
                    Pathname(@.resp.location))]
  /\ UNCHANGED <<store, cache, config, clock>>

GetPostBySlug(r) ==
  \/ \E segment \in SlugInputs : StartGetPost(r, segment)
  \/ GetTagsForPostStep(r)
  \/ FollowRedirect(r)

----------------------------------------------------------------------------
(* POST /comments/:postId -- router, handleCreateComment,
   CommentService.createComment *)

ContentMinLength == 1

ContentMaxLength == 500

AuthorMinLength == 2

AuthorMaxLength == 20

\* The length of the value as sent.
UntrimmedLength(value) == Len(value)

\* value.trim().length
TrimmedLength(value) == Len(Trim(value))

FieldLabel(field) ==
  IF field = "content" THEN <<"c", "o", "n", "t", "e", "n", "t">>
  ELSE <<"a", "u", "t", "h", "o", "r">>

\* The error of one field of a comment body, if any: the field is missing or
\* its trimmed length is outside min..max.
FieldErrors(data, field, min, max) ==
  IF \/ field \notin DOMAIN data
     \/ TrimmedLength(data[field]) < min
     \/ TrimmedLength(data[field]) > max
  THEN <<FieldLabel(field) \o <<" ", "i", "s", " ", "i", "n", "v", "a", "l", "i", "d">>>>
  ELSE <<>>

\* validateCreateComment(data): the array of the errors of the body, one for
\* each violated field (content 1..500, author 2..20 characters, trimmed).
validateCreateComment(data) ==
  FieldErrors(data, "content", ContentMinLength, ContentMaxLength)
    \o FieldErrors(data, "author", AuthorMinLength, AuthorMaxLength)

\* An INSERT that stores the trimmed content.
createTrimmed(rows, comment) == rows \cup {[comment EXCEPT !.content = Trim(@)]}

\* INSERT INTO comments (id, content, author_name, created_at, post_id)
create(rows, comment) == rows \cup {comment}

\* A string of n characters c.
Repeat(c, n) == [i \in 1..n |-> c]

ContentSamples ==
  {<<>>, <<" ">>, <<"x">>, <<" ", "x", " ">>,
   Repeat("x", ContentMaxLength), Repeat("x", ContentMaxLength + 1),
   <<" ">> \o Repeat("x", ContentMaxLength) \o <<" ">>}

AuthorSamples ==
  {<<>>, <<"a">>, <<"a", "b">>, <<" ", "a", " ">>, <<" ", "a", "b", " ">>,
   Repeat("a", AuthorMaxLength), Repeat("a", AuthorMaxLength + 1),
   <<" ">> \o Repeat("a", AuthorMaxLength)}

\* The JSON objects sent as comment bodies: each field is absent or a string.
Bodies ==
  {[f \in {"content", "author"} |-> IF f = "content" THEN c ELSE a] :
     c \in ContentSamples, a \in AuthorSamples}
    \cup {[f \in {"content"} |-> c] : c \in ContentSamples}
    \cup {[f \in {"author"} |-> a] : a \in AuthorSamples}
    \cup {[f \in {} |-> <<>>]}

\* crypto.randomUUID(): a value no stored comment has.
Uuids == {"uuid-1", "uuid-2"}

MsgInvalidJson ==
  <<"I", "n", "v", "a", "l", "i", "d", " ", "J", "S", "O", "N", " ", "i", "n", " ",
    "r", "e", "q", "u", "e", "s", "t", " ", "b", "o", "d", "y">>

\* The text of a request body: that of a JSON object, no text, or text that
\* is not JSON.  The router reads no field of the object: the payloads vary
\* the author only.
Malformed == [malformed |-> TRUE]

EmptyText == [empty |-> TRUE]

Payloads ==
  {b \in Bodies : "content" \in DOMAIN b /\ b.content = <<"x">>}
    \cup {Malformed, EmptyText}

\* parseJsonBody(request): {} for no text, the object for JSON text, and
\* Error("Invalid JSON in request body") for any other text.
parseJsonBody(payload) ==
  IF payload = Malformed THEN Thrown(Error(MsgInvalidJson))
  ELSE IF payload = EmptyText THEN Returned([f \in {} |-> <<>>])
  ELSE Returned(payload)

\* createComment up to the end of its first query: the checks of postId,
\* then postExists.
CreateCommentHead(rec, postId) ==
  IF postId = <<>> THEN Finished(rec, Thrown(ValidationError(MsgPostIdRequired)))
  ELSE IF ParseInt(postId).nan
  THEN Finished(rec, Thrown(ValidationError(MsgInvalidPostId)))
  ELSE LET id == ParseInt(postId).val
       IN IF ~postExists(posts, id)
          THEN Finished([rec EXCEPT !.id = id], Thrown(NotFoundError(MsgPostNotFound)))
          ELSE [rec EXCEPT !.id = id, !.pc = "create"]

\* handleCreateComment(request, env, _ctx, params, body, requestId): the
\* logger call reads body.author before the service is called.
HandleCreateCommentHead(rec, params, body) ==
  IF body = Null THEN Finished(rec, Thrown(TypeError(MsgNullAuthor)))
  ELSE CreateCommentHead([rec EXCEPT !.body = body], params[ParamPostId])

\* The handler is called with the body of the request.
StartCreateComment(r, postId, body) ==
  /\ CanStart(r)
  /\ req' = [req EXCEPT ![r] =
       HandleCreateCommentHead(Begin(r, "createComment", postId),
                               [name \in {ParamPostId} |-> postId], body)]
  /\ UNCHANGED <<store, cache, config, clock>>

\* router: POST /comments/{postId} with the payload as the text of the body.
\* The parsed body is logged, and the handler is called with null in the
\* place of the body.
RouteCreateComment(r, postId, payload) ==
  /\ CanStart(r)
  /\ LET rec == [Begin(r, "createComment", postId) EXCEPT !.routed = TRUE, !.body = payload]
         match == findRoute("POST", CommentsPath \o <<"/">> \o postId)
         body == parseJsonBody(payload)
     IN req' = [req EXCEPT ![r] =
          IF match = Null
          THEN FinishedWith(rec, NoResult, errorResponse(MsgRouteNotFound, 404))
          ELSE IF ~body.ok THEN Finished(rec, body)
          ELSE [HandleCreateCommentHead(rec, match.params, Null) EXCEPT !.body = payload]]
  /\ UNCHANGED <<store, cache, config, clock>>

MsgForeignKey ==
  <<"F", "O", "R", "E", "I", "G", "N", " ", "K", "E", "Y", " ", "c", "o", "n", "s",
    "t", "r", "a", "i", "n", "t", " ", "f", "a", "i", "l", "e", "d">>

\* After postExists: validateCreateComment, then the id and the timestamp
\* are generated and the comment is inserted.
CreateStep(r) ==
  /\ req[r].op = "createComment" /\ req[r].pc = "create"
  /\ LET commentData == req[r].body
         errors == validateCreateComment(commentData)
     IN IF errors # <<>>
        THEN /\ req' = [req EXCEPT ![r] =
                  Finished(@, Thrown(ValidationError(Join(errors, <<",", " ">>))))]
             /\ UNCHANGED comments
        ELSE \/ \E commentId \in Uuids \ {c.id : c \in comments} :
                  LET comment == [id |-> commentId, content |-> commentData.content,
                                  authorName |-> commentData.author,
                                  createdAt |-> clock, postId |-> req[r].id]
                  IN /\ comments' = create(comments, comment)
                     /\ req' = [req EXCEPT ![r] =
                          IF hasCache
                          THEN [@ EXCEPT !.pc = "invalidateCommentCache", !.local = comment]
                          ELSE Finished(@, Returned(comment))]
             \* post_id refers to no row any more: the store may refuse the
             \* INSERT, depending on whether it enforces the foreign key.
             \/ /\ req[r].id \notin DOMAIN posts
                /\ req' = [req EXCEPT ![r] = Finished(@, Thrown(Error(MsgForeignKey)))]
                /\ UNCHANGED comments
  /\ UNCHANGED <<posts, tags, postTags, cache, config, clock>>

\* if (this.env.CACHE) await invalidateCommentCache(this.env.CACHE, id), then
\* the created comment is returned.
InvalidateCommentCacheStep(r) ==
  /\ req[r].op = "createComment" /\ req[r].pc = "invalidateCommentCache"
  /\ cache' = invalidateCache(cache, CommentsKey(req[r].id))
  /\ req' = [req EXCEPT ![r] = Finished(@, Returned(@.local))]
  /\ UNCHANGED <<store, config, clock>>

CommentPostIdInputs == {IntToStr(n) : n \in 1..(MaxPosts + 1)} \cup {<<>>, <<"a">>}

CreateComment(r) ==
  \/ \E postId \in CommentPostIdInputs, body \in Bodies : StartCreateComment(r, postId, body)
  \/ \E postId \in CommentPostIdInputs, payload \in Payloads :
       RouteCreateComment(r, postId, payload)
  \/ CreateStep(r)
  \/ InvalidateCommentCacheStep(r)

\* Time passes: new Date() is later.
Tick ==
  /\ clock < MaxClock
  /\ clock' = clock + 1
  /\ UNCHANGED <<store, cache, config, req>>

----------------------------------------------------------------------------
(* GET /comments/:postId -- handleGetComments,
   CommentService.getCommentsByPostId *)

\* The sequences that hold every element of the finite set S once.
Orderings(S) ==
  {f \in [1..Cardinality(S) -> S] : \A i, j \in 1..Cardinality(S) : i # j => f[i] # f[j]}

\* A findByPostId that leaves ORDER BY out.
findByPostIdUnordered(rows, postId) ==
  Orderings({c \in rows : c.postId = postId})

\* SELECT id, content, author_name, created_at, post_id FROM comments
\* WHERE post_id = ? ORDER BY created_at ASC: the results the statement may
\* give, rows of equal created_at being in any order.
findByPostId(rows, postId) ==
  {f \in Orderings({c \in rows : c.postId = postId}) :
     \A i, j \in 1..Len(f) : i < j => f[i].createdAt <= f[j].createdAt}

\* comments.map((comment) => ({id, content, authorName, createdAt, postId}))
FormatComments(rows) ==
  [i \in 1..Len(rows) |->
     [id |-> rows[i].id, content |-> rows[i].content,
      authorName |-> rows[i].authorName, createdAt |-> rows[i].createdAt,
      postId |-> rows[i].postId]]

\* getCommentsByPostId up to the end of its first query: the checks of
\* postId, then postExists.
GetCommentsHead(rec, postId) ==
  IF postId = <<>> THEN Finished(rec, Thrown(ValidationError(MsgPostIdRequired)))
  ELSE IF ParseInt(postId).nan
  THEN Finished(rec, Thrown(ValidationError(MsgInvalidPostId)))
  ELSE LET id == ParseInt(postId).val
           asked == [rec EXCEPT !.id = id, !.queries = @ + 1]
       IN IF ~postExists(posts, id)
          THEN Finished(asked, Thrown(NotFoundError(MsgPostNotFound)))
          ELSE [asked EXCEPT !.pc = "findByPostId"]

\* The handler is called with params.postId.
StartGetComments(r, postId) ==
  /\ CanStart(r)
  /\ req' = [req EXCEPT ![r] =
       GetCommentsHead(Begin(r, "getCommentsByPostId", postId), postId)]
  /\ UNCHANGED <<store, cache, config, clock>>

\* const comments = await this.commentRepository.findByPostId(id), then the
\* formatted comments are returned.
FindByPostIdStep(r) ==
  /\ req[r].op = "getCommentsByPostId" /\ req[r].pc = "findByPostId"
  /\ \E rows \in findByPostId(comments, req[r].id) :
       req' = [req EXCEPT ![r] =
         Finished([@ EXCEPT !.queries = @ + 1], Returned(FormatComments(rows)))]
  /\ UNCHANGED <<store, cache, config, clock>>

ListPostIdInputs ==
  {IntToStr(n) : n \in 0..(MaxPosts + 1)} \cup {<<>>, <<"a", "b", "c">>, <<"-", "3">>}

GetCommentsByPostId(r) ==
  \/ \E postId \in ListPostIdInputs : StartGetComments(r, postId)
  \/ FindByPostIdStep(r)

----------------------------------------------------------------------------
(* GET /posts -- handleGetPosts, PostService.getPosts *)

\* The characters of s in upper case and in lower case.
ToUpperCase(s) ==
  [i \in 1..Len(s) |->
     IF Code(s[i]) >= Code("a") /\ Code(s[i]) <= Code("z")
     THEN CharOrder[Code(s[i]) - Code("a") + Code("A")] ELSE s[i]]

ToLowerCase(s) ==
  [i \in 1..Len(s) |->
     IF Code(s[i]) >= Code("A") /\ Code(s[i]) <= Code("Z")
     THEN CharOrder[Code(s[i]) - Code("A") + Code("a")] ELSE s[i]]

DefaultPage == 0

DefaultSize == 10

MinSize == 1

MaxSize == 100

DefaultSort == <<"c", "r", "e", "a", "t", "e", "d", "A", "t", ",", "d", "e", "s", "c">>

\* const allowedSortFields = ["createdAt", "updatedAt", "views", "title"]
allowedSortFields ==
  <<<<"c", "r", "e", "a", "t", "e", "d", "A", "t">>, <<"u", "p", "d", "a", "t", "e", "d", "A", "t">>, <<"v", "i", "e", "w", "s">>, <<"t", "i", "t", "l", "e">>>>

\* validatePagination({page, size}): the array of the errors of the page
\* (a number, not negative) and of the size (a number from 1 to 100).
validatePagination(page, size) ==
  (IF page.nan \/ page.val < 0
   THEN <<<<"p", "a", "g", "e", " ", "m", "u", "s", "t", " ", "b", "e", " ", "a", " ", "n", "o", "n", "-", "n", "e", "g", "a", "t", "i", "v", "e", " ", "i", "n", "t", "e", "g", "e", "r">>>> ELSE <<>>)
  \o (IF size.nan \/ size.val < MinSize \/ size.val > MaxSize
      THEN <<<<"s", "i", "z", "e", " ", "m", "u", "s", "t", " ", "b", "e", " ", "b", "e", "t", "w", "e", "e", "n", " ", "1", " ", "a", "n", "d", " ", "1", "0", "0">>>> ELSE <<>>)

\* validateSorting(sort, allowedFields): the array of the errors of the sort
\* parameter "field,direction": the field is an allowed one, the direction
\* is asc or desc in any case.
validateSorting(sort, allowedFields) ==
  LET parts == Split(sort, ",")
  IN (IF parts[1] \notin {allowedFields[i] : i \in 1..Len(allowedFields)}
      THEN <<<<"s", "o", "r", "t", " ", "f", "i", "e", "l", "d", " ", "m", "u", "s", "t", " ", "b", "e", " ", "o", "n", "e", " ", "o", "f", " ", "c", "r", "e", "a", "t", "e", "d", "A", "t", ",", " ", "u", "p", "d", "a", "t", "e", "d", "A", "t", ",", " ", "v", "i", "e", "w", "s", ",", " ", "t", "i", "t", "l", "e">>>> ELSE <<>>)
     \o (IF Len(parts) < 2 \/ ToLowerCase(parts[2]) \notin {<<"a", "s", "c">>, <<"d", "e", "s", "c">>}
         THEN <<<<"s", "o", "r", "t", " ", "d", "i", "r", "e", "c", "t", "i", "o", "n", " ", "m", "u", "s", "t", " ", "b", "e", " ", "a", "s", "c", " ", "o", "r", " ", "d", "e", "s", "c">>>> ELSE <<>>)

\* A validation that stops after the pagination.
GetPostsErrorsOfPagination(page, size, sort) == validatePagination(page, size)

\* The errors getPosts throws with: those of the pagination, and those of the
\* sort parameter once the pagination is valid.
GetPostsErrors(page, size, sort) ==
  IF validatePagination(page, size) # <<>> THEN validatePagination(page, size)
  ELSE validateSorting(sort, allowedSortFields)

\* fieldMapping[sortField] || sortField
dbSortField(sortField) ==
  IF sortField = <<"c", "r", "e", "a", "t", "e", "d", "A", "t">> THEN "created_at"
  ELSE IF sortField = <<"u", "p", "d", "a", "t", "e", "d", "A", "t">> THEN "updated_at"
  ELSE IF sortField = <<"v", "i", "e", "w", "s">> THEN "views"
  ELSE IF sortField = <<"t", "i", "t", "l", "e">> THEN "title"
  ELSE "unknown"

\* `${dbSortField} ${sortDirection.toUpperCase()}` of sort.split(",")
OrderClause(sort) ==
  LET parts == Split(sort, ",")
  IN [column |-> dbSortField(parts[1]), direction |-> ToUpperCase(parts[2])]

\* The posts of a list: WHERE state = 'published', joined on the tag named
\* tag when one is given (if (tag)).
Listed(table, tagRows, links, tag) ==
  {i \in DOMAIN table :
     /\ table[i].state = "published"
     /\ tag # <<>> =>
          \E l \in links, t \in tagRows :
            l.postId = i /\ l.tagId = t.id /\ t.name = tag}

\* a is not after b in ORDER BY column ASC.
ColumnLeq(table, column, a, b) ==
  IF column = "created_at" THEN table[a].createdAt <= table[b].createdAt
  ELSE IF column = "updated_at" THEN table[a].updatedAt <= table[b].updatedAt
  ELSE IF column = "views" THEN table[a].views <= table[b].views
  ELSE table[a].title = table[b].title \/ LexLess(table[a].title, table[b].title)

\* The first n elements of f after the first k.
Slice(f, k, n) ==
  SubSeq(f, k + 1, IF k + n < Len(f) THEN k + n ELSE Len(f))

\* A count that leaves the state filter out.
countAnyState(table, tagRows, links, tag) ==
  Cardinality({i \in DOMAIN table :
     tag # <<>> => \E l \in links, t \in tagRows :
                     l.postId = i /\ l.tagId = t.id /\ t.name = tag})

\* SELECT COUNT(*) / COUNT(DISTINCT p.id) ... WHERE [t.name = ? AND]
\* state = 'published'
count(table, tagRows, links, tag) == Cardinality(Listed(table, tagRows, links, tag))

\* SELECT ... WHERE ... ORDER BY ${orderClause} LIMIT ? OFFSET ?: the results
\* the statement may give, as sequences of ids, rows equal in the column
\* being in any order.
findAll(table, tagRows, links, tag, offset, limit, order) ==
  {Slice(f, offset, limit) :
     f \in {g \in Orderings(Listed(table, tagRows, links, tag)) :
              \A i, j \in 1..Len(g) : i < j =>
                IF order.direction = <<"A", "S", "C">>
                THEN ColumnLeq(table, order.column, g[i], g[j])
                ELSE ColumnLeq(table, order.column, g[j], g[i])}}

\* A batch read of tags that orders the names of a post by the id of the tag.
RECURSIVE NamesByTagId(_)
NamesByTagId(rowsOfPost) ==
  IF rowsOfPost = {} THEN <<>>
  ELSE LET m == CHOOSE t \in rowsOfPost : \A u \in rowsOfPost : t.id <= u.id
       IN <<m.name>> \o NamesByTagId(rowsOfPost \ {m})

getTagsForPostsByTagId(tagRows, links, postIds) ==
  [p \in {q \in postIds : \E l \in links : l.postId = q} |->
     NamesByTagId({t \in tagRows : \E l \in links : l.postId = p /\ l.tagId = t.id})]

\* SELECT pt.post_id, t.name ... WHERE pt.post_id IN (...) ORDER BY
\* pt.post_id, t.name, grouped by post_id: a Map from the posts that have a
\* tag to their tag names.
getTagsForPosts(tagRows, links, postIds) ==
  [p \in {q \in postIds : \E l \in links : l.postId = q} |->
     getTagsForPost(tagRows, links, p)]

\* The message V8 gives the TypeError of sortDirection.toUpperCase() when the
\* sort parameter has no comma.
MsgNoDirection == <<"C", "a", "n", "n", "o", "t", " ", "r", "e", "a", "d", " ", "p", "r", "o", "p", "e", "r", "t", "i", "e", "s", " ", "o", "f", " ", "u", "n", "d", "e", "f", "i", "n", "e", "d", " ", "(", "r", "e", "a", "d", "i", "n", "g", " ", "'", "t", "o", "U", "p", "p", "e", "r", "C", "a", "s", "e", "'", ")">>

\* The message of a statement the store cannot prepare.
MsgSqlError == <<"D", "1", "_", "E", "R", "R", "O", "R", ":", " ", "S", "Q", "L", " ", "e", "r", "r", "o", "r">>

\* The store prepares ORDER BY ${orderClause} when the clause names a column of
\* posts and a direction of SQL.
ValidOrder(order) ==
  /\ order.column \in {"created_at", "updated_at", "views", "title"}
  /\ order.direction \in {<<"A", "S", "C">>, <<"D", "E", "S", "C">>}

\* url.searchParams.get(name) || fallback
SearchParam(query, name, fallback) ==
  IF name \in DOMAIN query /\ query[name] # <<>> THEN query[name] ELSE fallback

\* handleGetPosts and getPosts up to the first query: the parameters are read
\* from the URL and validated.  A tag that is null or "" filters nothing and
\* is the empty string here.
GetPostsHead(rec, query) ==
  LET tag == SearchParam(query, "tag", <<>>)
      page == ParseInt(SearchParam(query, "page", IntToStr(DefaultPage)))
      size == ParseInt(SearchParam(query, "size", IntToStr(DefaultSize)))
      sort == SearchParam(query, "sort", DefaultSort)
      errors == GetPostsErrors(page, size, sort)
  IN IF errors # <<>>
     THEN Finished(rec, Thrown(ValidationError(Join(errors, <<",", " ">>))))
     ELSE IF Len(Split(sort, ",")) < 2
     THEN Finished(rec, Thrown(TypeError(MsgNoDirection)))
     ELSE [rec EXCEPT !.pc = "findAll",
                      !.local = [tag |-> tag, page |-> page.val, size |-> size.val,
                                 sort |-> sort]]

\* GET /posts with the query string query.
StartGetPosts(r, query) ==
  /\ CanStart(r)
  /\ req' = [req EXCEPT ![r] =
       GetPostsHead([Begin(r, "getPosts", <<>>) EXCEPT !.query = query], query)]
  /\ UNCHANGED <<store, cache, config, clock>>

\* const [posts, totalElements] = await Promise.all([findAll(...), count(tag)])
FindAllStep(r) ==
  /\ req[r].op = "getPosts" /\ req[r].pc = "findAll"
  /\ LET a == req[r].local
     IN IF ~ValidOrder(OrderClause(a.sort))
        THEN req' = [req EXCEPT ![r] =
               Finished([@ EXCEPT !.queries = @ + 2], Thrown(Error(MsgSqlError)))]
        ELSE
        \E ids \in findAll(posts, tags, postTags, a.tag, a.page * a.size, a.size,
                           OrderClause(a.sort)) :
          req' = [req EXCEPT ![r] =
            [@ EXCEPT !.pc = "getTagsForPosts", !.queries = @ + 2,
                      !.local = [page |-> a.page, size |-> a.size,
                                 rows |-> [i \in 1..Len(ids) |->
                                             [id |-> ids[i], slug |-> posts[ids[i]].slug,
                                              title |-> posts[ids[i]].title,
                                              createdAt |-> posts[ids[i]].createdAt,
                                              updatedAt |-> posts[ids[i]].updatedAt,
                                              views |-> posts[ids[i]].views]],
                                 totalElements |-> count(posts, tags, postTags, a.tag)]]]
  /\ UNCHANGED <<store, cache, config, clock>>

\* const tagsByPost = await getTagsForPosts(postIds) (no statement for an
\* empty page), then the page is returned.
GetTagsForPostsStep(r) ==
  /\ req[r].op = "getPosts" /\ req[r].pc = "getTagsForPosts"
  /\ LET a == req[r].local
         postIds == {a.rows[i].id : i \in 1..Len(a.rows)}
         tagsByPost == getTagsForPosts(tags, postTags, postIds)
         content == [i \in 1..Len(a.rows) |->
                       [id |-> a.rows[i].id, slug |-> a.rows[i].slug,
                        title |-> a.rows[i].title,
                        tags |-> IF a.rows[i].id \in DOMAIN tagsByPost
                                 THEN tagsByPost[a.rows[i].id] ELSE <<>>,
                        createdAt |-> a.rows[i].createdAt,
                        updatedAt |-> a.rows[i].updatedAt,
                        views |-> a.rows[i].views]]
     IN req' = [req EXCEPT ![r] =
          Finished([@ EXCEPT !.queries = IF postIds = {} THEN @ ELSE @ + 1],
                   Returned([content |-> content, totalElements |-> a.totalElements,
                             pageNumber |-> a.page, pageSize |-> a.size]))]
  /\ UNCHANGED <<store, cache, config, clock>>

\* The query strings of the list requests: the valid ones, and those with
\* one parameter out of range.
ValidQueries ==
  {[k \in {"tag", "page", "size", "sort"} |->
      IF k = "tag" THEN t ELSE IF k = "page" THEN p ELSE IF k = "size" THEN z ELSE o] :
     t \in {<<>>, <<"g", "o">>, <<"z", "z">>},
     p \in {<<"0">>, <<"1">>},
     z \in {<<"1">>, <<"2">>},
     o \in {<<"c", "r", "e", "a", "t", "e", "d", "A", "t", ",", "d", "e", "s", "c">>, <<"v", "i", "e", "w", "s", ",", "a", "s", "c">>, <<"t", "i", "t", "l", "e", ",", "D", "E", "S", "C">>, <<"u", "p", "d", "a", "t", "e", "d", "A", "t", ",", "A", "s", "c">>, <<"t", "i", "t", "l", "e", ",", "a", "s", "c">>}}

OtherQueries ==
  {[k \in {} |-> <<>>]}
    \cup {[k \in {"page"} |-> p] : p \in {<<"-", "1">>, <<"x">>, <<"2">>}}
    \cup {[k \in {"size"} |-> z] : z \in {<<"0">>, <<"1", "0", "0">>, <<"1", "0", "1">>, <<"x">>}}
    \cup {[k \in {"sort"} |-> o] :
            o \in {<<"n", "a", "m", "e", ",", "a", "s", "c">>, <<"v", "i", "e", "w", "s", ",", "u", "p">>, <<"v", "i", "e", "w", "s">>, <<"V", "i", "e", "w", "s", ",", "a", "s", "c">>, <<"v", "i", "e", "w", "s", ",">>}}
    \cup {[k \in {"page", "sort"} |-> IF k = "page" THEN <<"-", "1">> ELSE <<"n", "a", "m", "e", ",", "a", "s", "c">>]}

ListQueries == ValidQueries \cup OtherQueries

GetPosts(r) ==
  \/ \E query \in ListQueries : StartGetPosts(r, query)
  \/ FindAllStep(r)
  \/ GetTagsForPostsStep(r)

----------------------------------------------------------------------------
(* generateCacheKey as an operation *)

\* The parameter objects keys are generated for: every choice of names among
\* tag, page and size, in every order of insertion, with the values "0" and
\* "10".
ParamNames == {<<"t", "a", "g">>, <<"p", "a", "g", "e">>, <<"s", "i", "z", "e">>}

ParamValues == {<<"0">>, <<"1", "0">>}

ParamObjects ==
  UNION {UNION {{[i \in 1..Len(names) |-> <<names[i], values[names[i]]>>] :
                   values \in [N -> ParamValues]} :
                names \in Orderings(N)} : N \in SUBSET ParamNames}

\* A call of generateCacheKey(path, params).
GenerateCacheKey(r, path, params) ==
  /\ CanStart(r)
  /\ req' = [req EXCEPT ![r] =
       FinishedWith([Begin(r, "generateCacheKey", path) EXCEPT !.body = params],
                    Returned(generateCacheKey(path, params)), NoResponse)]
  /\ UNCHANGED <<store, cache, config, clock>>

----------------------------------------------------------------------------
(* GET /tags and GET /sitemap -- TagService.getActiveTags,
   SitemapService.generateSitemap, TagRepository *)

\* A tag list that leaves the post_count filter out.
findAllActiveAnyCount(tagRows) ==
  {f \in Orderings(tagRows) :
     \A i, j \in 1..Len(f) : i < j => ~LexLess(f[j].name, f[i].name)}

\* SELECT id, name, created_at, post_count FROM tags WHERE post_count > 0
\* ORDER BY name ASC: the results the statement may give.
findAllActive(tagRows) ==
  {f \in Orderings({t \in tagRows : t.postCount > 0}) :
     \A i, j \in 1..Len(f) : i < j => ~LexLess(f[j].name, f[i].name)}

\* A sitemap query that leaves the state filter out.
findAllPublishedSlugsAnyState(table) ==
  {[i \in 1..Len(f) |-> table[f[i]].slug] :
     f \in {g \in Orderings(DOMAIN table) :
              \A i, j \in 1..Len(g) : i < j => table[g[i]].createdAt >= table[g[j]].createdAt}}

\* SELECT slug FROM posts WHERE state = 'published' ORDER BY created_at DESC,
\* then result.results.map((post) => post.slug): the results the statement
\* may give, rows equal in created_at being in any order.
findAllPublishedSlugs(table) ==
  {[i \in 1..Len(f) |-> table[f[i]].slug] :
     f \in {g \in Orderings({p \in DOMAIN table : table[p].state = "published"}) :
              \A i, j \in 1..Len(g) : i < j => table[g[i]].createdAt >= table[g[j]].createdAt}}

\* handleGetTags, getActiveTags: the rows of findAllActive mapped to
\* {id, name, postCount, createdAt}.
GetActiveTags(r) ==
  /\ CanStart(r)
  /\ \E rows \in findAllActive(tags) :
       req' = [req EXCEPT ![r] =
         Finished([Begin(r, "getActiveTags", <<>>) EXCEPT !.queries = 1],
                  Returned([i \in 1..Len(rows) |->
                              [id |-> rows[i].id, name |-> rows[i].name,
                               postCount |-> rows[i].postCount,
                               createdAt |-> rows[i].createdAt]]))]
  /\ UNCHANGED <<store, cache, config, clock>>

\* handleGetSitemap, generateSitemap: the slugs findAllPublishedSlugs gives.
GenerateSitemap(r) ==
  /\ CanStart(r)
  /\ \E slugs \in findAllPublishedSlugs(posts) :
       req' = [req EXCEPT ![r] =
         Finished([Begin(r, "generateSitemap", <<>>) EXCEPT !.queries = 1],
                  Returned(slugs))]
  /\ UNCHANGED <<store, cache, config, clock>>

----------------------------------------------------------------------------
(* OPTIONS -- the preflight answered by the entry point *)

\* fetch: if (request.method === "OPTIONS") return handleCORS(allowedOrigins),
\* a 204 without a body.
Preflight(r) ==
  /\ CanStart(r)
  /\ req' = [req EXCEPT ![r] =
       FinishedWith(Begin(r, "options", <<>>), Returned(Null),
                    [status |-> 204, body |-> Null])]
  /\ UNCHANGED <<store, cache, config, clock>>

----------------------------------------------------------------------------
(* The cache helpers when a call of the KV namespace throws *)

\* What a failing call of the KV namespace rejects with.
KvError == Error(<<"K", "V", " ", "r", "e", "q", "u", "e", "s", "t", " ", "f", "a", "i", "l", "e", "d">>)

\* A read of the cache without the try/catch.
getCachedUncaught(kv, key, fails) ==
  IF fails THEN Thrown(KvError)
  ELSE IF key \in DOMAIN kv THEN Returned(kv[key]) ELSE Returned(Null)

\* getCached: try { return await cache.get(key, "json") } catch { return null }
\* fails tells that cache.get throws.
getCached(kv, key, fails) ==
  IF fails THEN Returned(Null)
  ELSE IF key \in DOMAIN kv THEN Returned(kv[key]) ELSE Returned(Null)

\* cache.put(key, JSON.stringify(data), {expirationTtl: ttl})
setCached(kv, key, data) ==
  [k \in DOMAIN kv \cup {key} |-> IF k = key THEN data ELSE kv[k]]

\* What the data fetcher of withCache returns.
FetchedValue == [json |-> "fetched"]

\* withCache(cache, key, dataFetcher) up to the end of getCached: a value
\* found is returned, otherwise the data fetcher is called next.  Without the
\* binding getCached returns null at once.
StartWithCache(r, key, fails) ==
  /\ CanStart(r)
  /\ fails => hasCache
  /\ LET rec == [Begin(r, "withCache", key) EXCEPT !.threw = fails]
         cached == getCached(cache, key, fails)
     IN req' = [req EXCEPT ![r] =
          IF ~cached.ok THEN FinishedWith(rec, cached, NoResponse)
          ELSE IF cached.value # Null
          THEN FinishedWith(rec, Returned(cached.value), NoResponse)
          ELSE [rec EXCEPT !.pc = "dataFetcher"]]
  /\ UNCHANGED <<store, cache, config, clock>>

\* const data = await dataFetcher(); setCached returns at once without the
\* binding.
DataFetcherStep(r) ==
  /\ req[r].op = "withCache" /\ req[r].pc = "dataFetcher"
  /\ req' = [req EXCEPT ![r] =
       IF hasCache THEN [@ EXCEPT !.pc = "setCached", !.local = FetchedValue]
       ELSE FinishedWith([@ EXCEPT !.local = FetchedValue], Returned(FetchedValue),
                         NoResponse)]
  /\ UNCHANGED <<store, cache, config, clock>>

\* await setCached(cache, key, data, ttl); return data.  When cache.put
\* throws, the entry may or may not have been written; the error is logged.
SetCachedStep(r, fails) ==
  /\ req[r].op = "withCache" /\ req[r].pc = "setCached"
  /\ IF fails
     THEN cache' \in {cache, setCached(cache, req[r].seg, req[r].local)}
     ELSE cache' = setCached(cache, req[r].seg, req[r].local)
  /\ req' = [req EXCEPT ![r] =
       FinishedWith([@ EXCEPT !.threw = @ \/ fails], Returned(@.local), NoResponse)]
  /\ UNCHANGED <<store, config, clock>>

\* invalidateCache(cache, `/posts/${id}`) when cache.delete throws: the entry
\* may or may not be gone; the error is logged and invalidatePostCache goes on.
InvalidatePostKeyThrows(r) ==
  /\ req[r].op = "incrementPostViews" /\ req[r].pc = "invalidateCache"
  /\ cache' \in {cache, invalidateCache(cache, PostKey(IntToStr(req[r].id)))}
  /\ req' = [req EXCEPT ![r] = [@ EXCEPT !.pc = "invalidateCacheByPrefix", !.threw = TRUE]]
  /\ UNCHANGED <<store, config, clock>>

\* invalidateCacheByPrefix(cache, "/posts?") when cache.list or one of the
\* cache.delete calls throws: any of the listed keys may be gone; the error
\* is logged and { views } is returned.
InvalidatePostListThrows(r) ==
  /\ req[r].op = "incrementPostViews" /\ req[r].pc = "invalidateCacheByPrefix"
  /\ \E gone \in SUBSET {k \in DOMAIN cache : StartsWith(k, PostListPrefix)} :
       cache' = [k \in DOMAIN cache \ gone |-> cache[k]]
  /\ req' = [req EXCEPT ![r] =
       Finished([@ EXCEPT !.threw = TRUE], Returned([views |-> @.local.views]))]
  /\ UNCHANGED <<store, config, clock>>

\* invalidateCommentCache when cache.delete throws: the error is logged and
\* the created comment is returned.
InvalidateCommentCacheThrows(r) ==
  /\ req[r].op = "createComment" /\ req[r].pc = "invalidateCommentCache"
  /\ cache' \in {cache, invalidateCache(cache, CommentsKey(req[r].id))}
  /\ req' = [req EXCEPT ![r] = Finished([@ EXCEPT !.threw = TRUE], Returned(@.local))]
  /\ UNCHANGED <<store, config, clock>>

----------------------------------------------------------------------------
(* Initial states *)

\* The query parameter objects of the GET /posts requests whose responses
\* the cache may hold, as entries in insertion order.
KeyPage == <<"p", "a", "g", "e">>

KeySize == <<"s", "i", "z", "e">>

ListParams ==
  { <<>>,
    << <<KeyPage, <<"0">>>> >>,
    << <<KeyPage, <<"0">>>>, <<KeySize, <<"1">>>> >>,
    << <<KeySize, <<"1">>>>, <<KeyPage, <<"0">>>> >> }

\* The keys of the cacheable requests: the list variants, the detail of each
\* post under its slug, the numeric path of each post, each comment list.
CacheKeys(table) ==
  {generateCacheKey(PostsPath, p) : p \in ListParams}
    \cup {PostKey(table[i].slug) : i \in DOMAIN table}
    \cup {PostKey(IntToStr(i)) : i \in PostIds}
    \cup {CommentsKey(i) : i \in PostIds}

\* A cached value: the JSON text of an earlier response, opaque here.
CachedValue == [json |-> "cached"]

\* The store and the cache a request may find, no request started: the posts
\* table is one of tables; either there is no cache binding, or the cache
\* holds an entry under every key of CacheKeys.
InitStore(tables) ==
  /\ posts \in tables
  /\ tags = {}
  /\ postTags = {}
  /\ comments = {}
  /\ hasCache \in BOOLEAN
  /\ cache = [k \in (IF hasCache THEN CacheKeys(posts) ELSE {}) |-> CachedValue]
  /\ clock = 0
  /\ req = [r \in Reqs |-> IdleReq]
  /\ views0 = [i \in DOMAIN posts |-> posts[i].views]

----------------------------------------------------------------------------
(* Specifications *)

\* Concurrent view increments.
InitViews == InitStore(DefaultSlugTables(ViewCounts))

NextViews == \E r \in Reqs : IncrementPostViews(r)

SpecViews == InitViews /\ [][NextViews]_vars

\* One client looking a post up and following redirects; the lookup only
\* reads, so that requests running beside it do not change its outcome.
InitLookup == InitStore(PostTables(Slugs, {0}))

NextLookup == \E r \in {1} : GetPostBySlug(r)

SpecLookup == InitLookup /\ [][NextLookup]_vars

\* One client creating a comment, through the handler or through the router.
InitComments == InitStore(DefaultSlugTables({0}))

NextComments ==
  \/ \E r \in {1} : CreateComment(r)
  \/ Tick

SpecComments == InitComments /\ [][NextComments]_vars

\* The comments a store may hold before the requests: the seeds of K, all
\* on post p; two seeds have the same creation time.
SeedNames == {"seed-1", "seed-2", "seed-3"}

SeedTime(name) == IF name = "seed-3" THEN 0 - 1 ELSE 0

SeedComments(p, K) ==
  {[id |-> name, content |-> <<"x">>, authorName |-> <<"a", "b">>,
    createdAt |-> SeedTime(name), postId |-> p] : name \in K}

\* The bodies of the comments created beside the list requests.
ListedBodies ==
  {[content |-> <<" ", "x", " ">>, author |-> <<"a", "b">>],
   [content |-> <<>>, author |-> <<"a", "b">>]}

\* Comment lists read beside a comment creation, with a cache bound.
InitCommentList ==
  /\ posts \in DefaultSlugTables({0})
  /\ tags = {}
  /\ postTags = {}
  /\ \E p \in PostIds, K \in SUBSET SeedNames : comments = SeedComments(p, K)
  /\ hasCache = TRUE
  /\ cache = [k \in CacheKeys(posts) |-> CachedValue]
  /\ clock = 0
  /\ req = [r \in Reqs |-> IdleReq]
  /\ views0 = [i \in DOMAIN posts |-> posts[i].views]

NextCommentList ==
  \/ \E postId \in {IntToStr(n) : n \in PostIds}, body \in ListedBodies :
       StartCreateComment(1, postId, body)
  \/ CreateStep(1)
  \/ InvalidateCommentCacheStep(1)
  \/ \E r \in {1, 2} : GetCommentsByPostId(r)
  \/ Tick

SpecCommentList == InitCommentList /\ [][NextCommentList]_vars

\* The columns of the posts that a list sorts by: the first two posts are
\* equal in views and in the opposite order by createdAt and by updatedAt, the
\* first and the third are equal in title.
SortProfiles ==
  <<[title |-> <<"a">>, createdAt |-> 1, updatedAt |-> 2, views |-> 10],
    [title |-> <<"b">>, createdAt |-> 2, updatedAt |-> 1, views |-> 10],
    [title |-> <<"a">>, createdAt |-> 3, updatedAt |-> 3, views |-> 11]>>

\* The posts tables of the lists: posts 1..n, each published or draft.
ListTables ==
  UNION {{[i \in 1..n |->
             [state |-> states[i], slug |-> <<"p">>,
              views |-> SortProfiles[((i - 1) % Len(SortProfiles)) + 1].views,
              title |-> SortProfiles[((i - 1) % Len(SortProfiles)) + 1].title,
              createdAt |-> SortProfiles[((i - 1) % Len(SortProfiles)) + 1].createdAt + (i - 1) \div Len(SortProfiles),
              updatedAt |-> SortProfiles[((i - 1) % Len(SortProfiles)) + 1].updatedAt]] :
            states \in [1..n -> PostStates]} : n \in 0..MaxPosts}

\* The tags: the order of their names is not that of their ids.
TagNames == <<<<"j", "s">>, <<"g", "o">>>>

\* The post_tags tables of the lists: no link, every post with every tag, or
\* post i with the tag of the parity of i.
LinkTables(table) ==
  {{},
   {[postId |-> i, tagId |-> t] : i \in DOMAIN table, t \in DOMAIN TagNames},
   {[postId |-> i, tagId |-> (i % Len(TagNames)) + 1] : i \in DOMAIN table}}

PostCount(table, links, t) ==
  Cardinality({i \in DOMAIN table :
                 table[i].state = "published" /\ [postId |-> i, tagId |-> t] \in links})

\* Lists of posts and details of posts over a store with tags; a second list
\* request repeats the first one after it has been answered.
InitList ==
  /\ \E table \in ListTables :
       posts = [i \in DOMAIN table |-> [table[i] EXCEPT !.slug = DefaultSlug(i)]]
  /\ postTags \in LinkTables(posts)
  /\ tags = {[id |-> t, name |-> TagNames[t], createdAt |-> t,
              postCount |-> PostCount(posts, postTags, t)] : t \in DOMAIN TagNames}
  /\ comments = {}
  /\ hasCache = TRUE
  /\ cache = [k \in CacheKeys(posts) |-> CachedValue]
  /\ clock = 0
  /\ req = [r \in Reqs |-> IdleReq]
  /\ views0 = [i \in DOMAIN posts |-> posts[i].views]

NextList ==
  \/ GetPosts(1)
  \/ /\ req[1].op = "getPosts" /\ Done(1)
     /\ StartGetPosts(2, req[1].query)
  \/ FindAllStep(2)
  \/ GetTagsForPostsStep(2)
  \/ \E segment \in {DefaultSlug(i) : i \in PostIds} : StartGetPost(1, segment)
  \/ GetTagsForPostStep(1)

SpecList == InitList /\ [][NextList]_vars

\* The keys withCache is called with: those of the cache, and one that no
\* entry is stored under.
WithCacheKeys == CacheKeys(posts) \cup {PostKey(<<"n", "e", "w">>)}

WithCache(r) ==
  \/ \E key \in WithCacheKeys, fails \in BOOLEAN : StartWithCache(r, key, fails)
  \/ DataFetcherStep(r)
  \/ \E fails \in BOOLEAN : SetCachedStep(r, fails)

\* Requests one after the other over a cache whose calls may throw: a view
\* increment or a comment creation, then a read through withCache.
InitCacheFaults == InitStore(DefaultSlugTables({0}))

NextCacheFaults ==
  \/ \E postId \in PostIdInputs : StartIncrement(1, postId)
  \/ GetViewsStep(1)
  \/ InvalidatePostKeyStep(1)
  \/ InvalidatePostListStep(1)
  \/ InvalidatePostKeyThrows(1)
  \/ InvalidatePostListThrows(1)
  \/ \E postId \in {IntToStr(p) : p \in PostIds}, body \in ListedBodies :
       StartCreateComment(1, postId, body)
  \/ CreateStep(1)
  \/ InvalidateCommentCacheStep(1)
  \/ InvalidateCommentCacheThrows(1)
  \/ Sequential(2) /\ WithCache(2)

SpecCacheFaults == InitCacheFaults /\ [][NextCacheFaults]_vars

\* Calls of generateCacheKey.
InitCacheKey == InitStore({<<>>})

NextCacheKey ==
  \E path \in {PostsPath, CommentsKey(1)}, params \in ParamObjects :
    GenerateCacheKey(1, path, params)

SpecCacheKey == InitCacheKey /\ [][NextCacheKey]_vars

\* The posts tables of the tag list and of the sitemap: posts 1..n, each
\* published or draft and created at time 1 or 2, so that posts may be equal
\* in createdAt.
CatalogTables ==
  UNION {{[i \in 1..n |-> [state |-> states[i], slug |-> DefaultSlug(i), views |-> 0,
                           createdAt |-> times[i]]] :
            states \in [1..n -> PostStates], times \in [1..n -> {1, 2}]} :
         n \in 0..MaxPosts}

\* Tag lists and sitemaps, one request after the other.  post_count is what
\* the triggers of the store keep: the number of published posts linked.
InitCatalog ==
  /\ posts \in CatalogTables
  /\ postTags \in LinkTables(posts)
  /\ tags = {[id |-> t, name |-> TagNames[t], createdAt |-> t,
              postCount |-> PostCount(posts, postTags, t)] : t \in DOMAIN TagNames}
  /\ comments = {}
  /\ hasCache = TRUE
  /\ cache = [k \in CacheKeys(posts) |-> CachedValue]
  /\ clock = 0
  /\ req = [r \in Reqs |-> IdleReq]
  /\ views0 = [i \in DOMAIN posts |-> posts[i].views]

NextCatalog ==
  \E r \in {1, 2} :
    \/ Sequential(r) /\ GetActiveTags(r)
    \/ Sequential(r) /\ GenerateSitemap(r)

SpecCatalog == InitCatalog /\ [][NextCatalog]_vars

\* The public operations, one request after the other, over a store with
\* tags: lists, details and numeric lookups, view increments, comment lists
\* and creations, the tag list, the sitemap and the preflight.
SurfaceQueries == {query \in OtherQueries : DOMAIN query \subseteq {"page"}}

SurfaceSegments == {DefaultSlug(1), IntToStr(1), IntToStr(MaxPosts + 1)}

SurfacePostIds == {IntToStr(1), IntToStr(0), <<"a">>}

InitSurface == InitList

NextSurface ==
  \E r \in {1, 2} :
    \/ \E query \in SurfaceQueries : Sequential(r) /\ StartGetPosts(r, query)
    \/ FindAllStep(r)
    \/ GetTagsForPostsStep(r)
    \/ \E segment \in SurfaceSegments : Sequential(r) /\ StartGetPost(r, segment)
    \/ GetTagsForPostStep(r)
    \/ \E postId \in SurfacePostIds : Sequential(r) /\ StartIncrement(r, postId)
    \/ GetViewsStep(r)
    \/ InvalidatePostKeyStep(r)
    \/ InvalidatePostListStep(r)
    \/ \E postId \in SurfacePostIds, body \in ListedBodies :
         Sequential(r) /\ StartCreateComment(r, postId, body)
    \/ CreateStep(r)
    \/ InvalidateCommentCacheStep(r)
    \/ \E postId \in SurfacePostIds : Sequential(r) /\ StartGetComments(r, postId)
    \/ FindByPostIdStep(r)
    \/ Sequential(r) /\ GetActiveTags(r)
    \/ Sequential(r) /\ GenerateSitemap(r)
    \/ Sequential(r) /\ Preflight(r)

SpecSurface == InitSurface /\ [][NextSurface]_vars

----------------------------------------------------------------------------
(* Properties of the view increment *)

IsIncrement(r) == req[r].op = "incrementPostViews"

\* The request passed the checks of postId: its UPDATE has run.
Applied(r) == IsIncrement(r) /\ req[r].id = ParseInt(req[r].seg).val
                /\ req[r].seg # <<>> /\ ~ParseInt(req[r].seg).nan

Succeeded(r) == Done(r) /\ req[r].resp.status = 200

Published(p) == p \in DOMAIN posts /\ posts[p].state = "published"

\* The posts whose fields the successful response of request r carries.
ExposedPosts(r) ==
  IF IsIncrement(r) THEN {req[r].id}
  ELSE IF req[r].op = "getPostBySlug" THEN {req[r].resp.body.data.id}
  ELSE {}

\* C1: no successful response carries a field of a post whose state is draft
\* (the view count returned by incrementPostViews included).
C1_OnlyPublishedVisible ==
  \A r \in Reqs : Succeeded(r) =>
    \A p \in ExposedPosts(r) : p \in DOMAIN posts => posts[p].state # "draft"

\* The increment requests on post p whose UPDATE has run.
IncrementsOf(p) == {r \in Reqs : Applied(r) /\ req[r].id = p}

\* C2: with the increment requests as the only writers, the stored count of a
\* published post is its initial count plus the number of increments applied
\* (v+N when all N have run), every request returns a value from v+1 to v+N,
\* and when the requests run one after another the k-th returns v+k.
C2_IncrementsCounted ==
  \A p \in DOMAIN posts : posts[p].state = "published" =>
    /\ posts[p].views = views0[p] + Cardinality(IncrementsOf(p))
    /\ \A r \in IncrementsOf(p) : Done(r) =>
         /\ req[r].resp.status = 200
         /\ req[r].resp.body.data.views >= views0[p] + 1
         /\ req[r].resp.body.data.views <= views0[p] + Cardinality(IncrementsOf(p))
         /\ (\A q \in Reqs : req[q].op # "idle" => req[q].seq) =>
              req[r].resp.body.data.views =
                views0[p] + Cardinality({q \in IncrementsOf(p) : q <= r})

\* Two increments of one published post have both finished, the one issued
\* first having read the count only after the second was applied.
C2_Witness ==
  \E p \in DOMAIN posts : \E r1, r2 \in IncrementsOf(p) :
    /\ posts[p].state = "published" /\ r1 < r2 /\ Done(r1) /\ Done(r2)
    /\ req[r1].resp.body.data.views = views0[p] + 2
    /\ req[r2].resp.body.data.views = views0[p] + 2
    /\ posts[p].views = views0[p] + 2

\* Request r asks to increment the views of an id that no post has.
IncrementOfMissing(rec) ==
  /\ rec.op = "incrementPostViews"
  /\ rec.seg # <<>> /\ ~ParseInt(rec.seg).nan
  /\ ParseInt(rec.seg).val \notin DOMAIN posts

\* C3: incrementPostViews for an id that matches no post raises NotFound
\* (HTTP 404), and no step of that request changes the store or the cache.
C3_MissingPostNotFound ==
  /\ [](\A r \in Reqs : (Done(r) /\ IncrementOfMissing(req[r])) =>
          /\ ~req[r].result.ok
          /\ req[r].result.error.name = "NotFoundError"
          /\ req[r].resp.status = 404
          /\ req[r].resp.body.error.code = 404)
  /\ [][\A r \in Reqs : (req'[r] # req[r] /\ IncrementOfMissing(req'[r])) =>
          (store' = store /\ cache' = cache)]_vars

\* An increment of a missing id has finished while the store holds a post
\* and the cache holds entries.
C3_Witness ==
  \E r \in Reqs :
    /\ Done(r) /\ IncrementOfMissing(req[r])
    /\ DOMAIN posts # {} /\ hasCache /\ DOMAIN cache # {}

\* C4: after a successful incrementPostViews with a cache configured, the
\* cache holds no entry under /posts/{slug}, the key of the post's detail.
C4_DetailEntryInvalidated ==
  \A r \in Reqs : (Succeeded(r) /\ IsIncrement(r) /\ hasCache /\ Published(req[r].id)) =>
    PostKey(posts[req[r].id].slug) \notin DOMAIN cache

\* C5: after a successful view increment no key generateCacheKey("/posts",
\* params) remains in the cache, the key of the request without query
\* parameters included.
C5_ListEntriesInvalidated ==
  \A r \in Reqs : (Succeeded(r) /\ IsIncrement(r) /\ hasCache /\ Published(req[r].id)) =>
    \A params \in ListParams : generateCacheKey(PostsPath, params) \notin DOMAIN cache

----------------------------------------------------------------------------
(* Properties of the post lookup *)

IsGetPost(r) == req[r].op = "getPostBySlug"

EndsWith(s, suffix) ==
  Len(suffix) <= Len(s) /\ SubSeq(s, Len(s) - Len(suffix) + 1, Len(s)) = suffix

\* C6: the lookup of a path segment made only of decimal digits answers 301
\* with a Location ending in /posts/{slug of the post of that id} when that
\* post exists and is published, 404 when no published post has that id, and
\* never 200.
C6_NumericSegmentRedirects ==
  \A r \in Reqs : (IsGetPost(r) /\ Done(r) /\ IsNumericId(req[r].seg)) =>
    LET id == ParseInt(req[r].seg).val
    IN /\ Published(id) =>
            /\ req[r].resp.status = 301
            /\ EndsWith(req[r].resp.location, PostKey(posts[id].slug))
       /\ ~Published(id) => req[r].resp.status = 404
       /\ req[r].resp.status # 200

\* Numeric lookups have been answered: one of a published post, written with
\* a leading zero, by a redirect; one of a draft post by 404.
C6_Witness ==
  \E r \in Reqs :
    /\ IsGetPost(r) /\ Done(r) /\ req[r].seg = <<"0", "1">>
    /\ Published(1) /\ req[r].resp.status = 301
    /\ \E p \in DOMAIN posts : posts[p].state = "draft"

\* C7: a client that requests GET /posts/{p.id} of a published post p and
\* then the returned Location receives 200 with the detail of p: the chain
\* has exactly one redirect and ends neither in 404 nor in another post.
C7_PermalinkConverges ==
  \A r \in Reqs :
    (/\ IsGetPost(r) /\ Done(r) /\ req[r].hops >= 1
     /\ IsNumericId(req[r].entry) /\ Published(ParseInt(req[r].entry).val)) =>
      /\ req[r].hops = 1
      /\ req[r].resp.status = 200
      /\ req[r].resp.body.data.id = ParseInt(req[r].entry).val

----------------------------------------------------------------------------
(* Properties of the comment creation *)

IsCreate(r) == req[r].op = "createComment"

\* The post the request names, for a postId that is a number.
NamesPost(r) == req[r].seg # <<>> /\ ~ParseInt(req[r].seg).nan

\* The length rules of a comment body: both fields present, the trimmed
\* content of 1 to 500 characters and the trimmed author of 2 to 20.
SatisfiesLengthRules(body) ==
  /\ DOMAIN body = {"content", "author"}
  /\ Len(Trim(body.content)) >= 1 /\ Len(Trim(body.content)) <= 500
  /\ Len(Trim(body.author)) >= 2 /\ Len(Trim(body.author)) <= 20

\* The comment a body creates on post id is in the store.
Persisted(body, id) ==
  \E c \in comments :
    c.postId = id /\ c.content = body.content /\ c.authorName = body.author

HasJsonBody(r) == req[r].body \in Bodies

\* C8: a POST /comments/{postId} request dispatched through the router with
\* a JSON body that satisfies the length rules, for a published post, is
\* answered 200 with the created comment as data, and the comment is in the
\* store.
C8_RoutedCommentCreated ==
  \A r \in Reqs :
    (/\ IsCreate(r) /\ req[r].routed /\ Done(r) /\ NamesPost(r)
     /\ Published(ParseInt(req[r].seg).val)
     /\ HasJsonBody(r) /\ SatisfiesLengthRules(req[r].body)) =>
      /\ req[r].resp.status = 200
      /\ req[r].resp.body.success
      /\ req[r].resp.body.data \in comments
      /\ Persisted(req[r].body, ParseInt(req[r].seg).val)

\* A createComment call, not through the router, on a post that is draft or
\* does not exist.
CreateOnUnpublished(rec) ==
  /\ rec.op = "createComment" /\ ~rec.routed
  /\ rec.seg # <<>> /\ ~ParseInt(rec.seg).nan
  /\ ~Published(ParseInt(rec.seg).val)

\* C9: createComment for a post that is draft or does not exist raises
\* NotFound (404) whatever the body is, and the steps of such a call store no
\* comment and delete no cache entry.
C9_NotFoundBeforeValidation ==
  /\ [](\A r \in Reqs : CreateOnUnpublished(req[r]) =>
          /\ Done(r)
          /\ ~req[r].result.ok
          /\ req[r].result.error.name = "NotFoundError"
          /\ req[r].resp.status = 404)
  /\ [][\A r \in Reqs :
          (CreateOnUnpublished(req'[r]) /\ req'[r] # req[r]) =>
            (comments' = comments /\ cache' = cache)]_vars

\* A body that violates the length rules was sent for a draft post while the
\* cache held the comment list of that post, and the call ended in 404.
C9_Witness ==
  \E r \in Reqs :
    /\ CreateOnUnpublished(req[r]) /\ Done(r)
    /\ ParseInt(req[r].seg).val \in DOMAIN posts
    /\ ~SatisfiesLengthRules(req[r].body)
    /\ req[r].resp.status = 404
    /\ CommentsKey(ParseInt(req[r].seg).val) \in DOMAIN cache

\* A createComment call, not through the router, on a published post, whose
\* body has been validated.
ValidatedOnPublished(r) ==
  /\ IsCreate(r) /\ ~req[r].routed /\ NamesPost(r)
  /\ Published(ParseInt(req[r].seg).val)
  /\ req[r].pc # "create"

ViolatesRule(body, f) ==
  \/ f \notin DOMAIN body
  \/ f = "content" /\ (Len(Trim(body[f])) < 1 \/ Len(Trim(body[f])) > 500)
  \/ f = "author" /\ (Len(Trim(body[f])) < 2 \/ Len(Trim(body[f])) > 20)

NameOfField(f) ==
  IF f = "content" THEN <<"c", "o", "n", "t", "e", "n", "t">>
  ELSE <<"a", "u", "t", "h", "o", "r">>

----------------------------------------------------------------------------
(* Properties of the comment list *)

IsGetComments(rec) == rec.op = "getCommentsByPostId"

\* The elements of a sequence.
Range(f) == {f[i] : i \in 1..Len(f)}

\* C18: getCommentsByPostId for a published post returns exactly the comments
\* of that post that the store holds when they are read, each as {id,
\* content, authorName, createdAt, postId}, in ascending order of createdAt;
\* for a draft or missing post it raises NotFound (404).
C18_CommentsOfPostInOrder ==
  /\ [](\A r \in Reqs :
          (IsGetComments(req[r]) /\ Done(r) /\ req[r].seg # <<>>
           /\ ~ParseInt(req[r].seg).nan) =>
            IF Published(ParseInt(req[r].seg).val)
            THEN /\ req[r].resp.status = 200
                 /\ \A i, j \in 1..Len(req[r].resp.body.data) :
                      i < j => req[r].resp.body.data[i].createdAt
                                 <= req[r].resp.body.data[j].createdAt
                 /\ \A i \in 1..Len(req[r].resp.body.data) :
                      /\ DOMAIN req[r].resp.body.data[i] =
                           {"id", "content", "authorName", "createdAt", "postId"}
                      /\ req[r].resp.body.data[i].postId = ParseInt(req[r].seg).val
            ELSE /\ ~req[r].result.ok
                 /\ req[r].result.error.name = "NotFoundError"
                 /\ req[r].resp.status = 404)
  /\ [][\A r \in Reqs :
          (IsGetComments(req'[r]) /\ req'[r].pc = "done" /\ req[r].pc = "findByPostId") =>
            /\ Range(req'[r].resp.body.data) = {c \in comments : c.postId = req[r].id}
            /\ Len(req'[r].resp.body.data) =
                 Cardinality({c \in comments : c.postId = req[r].id})]_vars

\* The list of a published post has been returned with three comments, two
\* of them created at the same time.
C18_Witness ==
  \E r \in Reqs :
    /\ IsGetComments(req[r]) /\ Done(r) /\ req[r].resp.status = 200
    /\ Len(req[r].resp.body.data) = 3
    /\ req[r].resp.body.data[1].createdAt < req[r].resp.body.data[2].createdAt
    /\ req[r].resp.body.data[2].createdAt = req[r].resp.body.data[3].createdAt

\* C19: getCommentsByPostId raises a validation failure (400), not NotFound,
\* for every postId that does not parse as a positive integer ("abc", "0",
\* "-3"), and sends no statement to the store for it.
C19_NonPositiveIdRejected ==
  \A r \in Reqs :
    (/\ IsGetComments(req[r]) /\ Done(r)
     /\ (ParseInt(req[r].seg).nan \/ ParseInt(req[r].seg).val <= 0)) =>
      /\ req[r].resp.status = 400
      /\ req[r].result.error.name = "ValidationError"
      /\ req[r].queries = 0

\* A createComment call that has returned the comment it created.
Created(r) ==
  /\ IsCreate(r) /\ Done(r) /\ req[r].result.ok

\* A list request on the post of the comment request c created, started
\* after c had returned.
ListsAfter(l, c) ==
  /\ c < l /\ Created(c)
  /\ IsGetComments(req[l]) /\ req[l].seq
  /\ req[l].pc # "idle" /\ req[l].id = req[c].id
  /\ Done(l) /\ req[l].resp.status = 200

\* C20: after createComment has succeeded, getCommentsByPostId of the same
\* post holds exactly one element with the returned id, and that element is
\* equal, field for field, to the object createComment returned.
C20_CreatedCommentListed ==
  \A c, l \in Reqs : ListsAfter(l, c) =>
    LET data == req[l].resp.body.data
        made == req[c].result.value
    IN /\ Cardinality({i \in 1..Len(data) : data[i].id = made.id}) = 1
       /\ \A i \in 1..Len(data) : data[i].id = made.id => data[i] = made

\* A comment whose content has spaces around it was created on a post that
\* had comments, and the list read after it holds it.
C20_Witness ==
  \E c, l \in Reqs :
    /\ ListsAfter(l, c)
    /\ req[c].result.value.content = <<" ", "x", " ">>
    /\ Len(req[l].resp.body.data) >= 2

----------------------------------------------------------------------------
(* Properties of the list of posts *)

IsGetPosts(rec) == rec.op = "getPosts"

\* The parameters of a list request as the handler reads them.
TagOf(query) == SearchParam(query, "tag", <<>>)

PageOf(query) == ParseInt(SearchParam(query, "page", <<"0">>))

SizeOf(query) == ParseInt(SearchParam(query, "size", <<"1", "0">>))

SortOf(query) == Split(SearchParam(query, "sort", <<"c", "r", "e", "a", "t", "e", "d", "A", "t", ",", "d", "e", "s", "c">>), ",")

\* The published posts, those carrying the tag when one is asked for.
Filtered(tag) ==
  {i \in DOMAIN posts :
     /\ posts[i].state = "published"
     /\ tag # <<>> =>
          \E t \in tags : t.name = tag /\ [postId |-> i, tagId |-> t.id] \in postTags}

\* Post a may stand before post b in a list sorted by field in direction.
MayPrecede(a, b, field, direction) ==
  LET lo == IF ToLowerCase(direction) = <<"a", "s", "c">> THEN a ELSE b
      hi == IF ToLowerCase(direction) = <<"a", "s", "c">> THEN b ELSE a
  IN IF field = <<"c", "r", "e", "a", "t", "e", "d", "A", "t">> THEN posts[lo].createdAt <= posts[hi].createdAt
     ELSE IF field = <<"u", "p", "d", "a", "t", "e", "d", "A", "t">> THEN posts[lo].updatedAt <= posts[hi].updatedAt
     ELSE IF field = <<"v", "i", "e", "w", "s">> THEN posts[lo].views <= posts[hi].views
     ELSE ~LexLess(posts[hi].title, posts[lo].title)

\* C15: the content of a page returned by getPosts is the positions
\* [page*size, page*size+size) of the published posts, filtered by the tag
\* when one is given, sorted by the requested field and direction;
\* totalElements is the size of the whole filtered set; pageNumber and
\* pageSize are the inputs.
C15_PageOfSortedPublishedPosts ==
  \A r \in Reqs :
    (IsGetPosts(req[r]) /\ Done(r) /\ req[r].result.ok) =>
      LET q == req[r].query
          page == PageOf(q).val
          size == SizeOf(q).val
          data == req[r].resp.body.data
          ids == [i \in 1..Len(data.content) |-> data.content[i].id]
      IN /\ req[r].resp.status = 200
         /\ data.totalElements = Cardinality(Filtered(TagOf(q)))
         /\ data.pageNumber = page
         /\ data.pageSize = size
         /\ \E o \in Orderings(Filtered(TagOf(q))) :
              /\ \A i, j \in 1..Len(o) :
                   i < j => MayPrecede(o[i], o[j], SortOf(q)[1], SortOf(q)[2])
              /\ ids = SubSeq(o, page * size + 1,
                              IF page * size + size < Len(o)
                              THEN page * size + size ELSE Len(o))
         /\ \A i \in 1..Len(ids) :
              /\ data.content[i].slug = posts[ids[i]].slug
              /\ data.content[i].title = posts[ids[i]].title
              /\ data.content[i].createdAt = posts[ids[i]].createdAt
              /\ data.content[i].updatedAt = posts[ids[i]].updatedAt
              /\ data.content[i].views = posts[ids[i]].views

\* The second page of size 1 of the posts tagged "go" has been returned: two
\* posts carry the tag, the later one of them comes first and is not on the
\* page, and a draft is not counted.
C15_Witness ==
  \E r \in Reqs :
    /\ IsGetPosts(req[r]) /\ Done(r) /\ req[r].resp.status = 200
    /\ req[r].query = [k \in {"tag", "page", "size", "sort"} |->
                         IF k = "tag" THEN <<"g", "o">> ELSE IF k = "page" THEN <<"1">>
                         ELSE IF k = "size" THEN <<"1">> ELSE <<"c", "r", "e", "a", "t", "e", "d", "A", "t", ",", "d", "e", "s", "c">>]
    /\ req[r].resp.body.data.totalElements = 2
    /\ Len(req[r].resp.body.data.content) = 1
    /\ \E i \in DOMAIN posts :
         /\ posts[i].state = "published"
         /\ posts[i].createdAt > posts[req[r].resp.body.data.content[1].id].createdAt

\* The violations of the contract of the list parameters.
BadPage(query) == PageOf(query).nan \/ PageOf(query).val < 0

BadSize(query) ==
  SizeOf(query).nan \/ SizeOf(query).val < 1 \/ SizeOf(query).val > 100

BadSort(query) ==
  \/ SortOf(query)[1] \notin {<<"c", "r", "e", "a", "t", "e", "d", "A", "t">>, <<"u", "p", "d", "a", "t", "e", "d", "A", "t">>, <<"v", "i", "e", "w", "s">>, <<"t", "i", "t", "l", "e">>}
  \/ Len(SortOf(query)) < 2
  \/ ToLowerCase(SortOf(query)[2]) \notin {<<"a", "s", "c">>, <<"d", "e", "s", "c">>}

LinkedNames(p) ==
  {t.name : t \in {u \in tags : [postId |-> p, tagId |-> u.id] \in postTags}}

\* names is the names of the tags of post p, each once, in lexicographic
\* order.
TagsInOrder(p, names) ==
  /\ \A i, j \in 1..Len(names) : i < j => LexLess(names[i], names[j])
  /\ Range(names) = LinkedNames(p)

C13_SecondListFromCache ==
  \A r, s \in Reqs :
    (/\ r < s /\ IsGetPosts(req[r]) /\ IsGetPosts(req[s])
     /\ Done(r) /\ Done(s) /\ req[s].seq
     /\ req[s].query = req[r].query
     /\ hasCache /\ clock = 0) =>
      /\ req[s].resp = req[r].resp
      /\ req[s].queries = 0

----------------------------------------------------------------------------
(* Properties of the cache helpers under failures *)

\* C14: no failure of the cache fails a request.  A request one of whose
\* cache calls threw goes on with its next call and ends with a result, not
\* an error: withCache, whose cache.get threw (as on a miss) or whose
\* cache.put threw, returns the result of the data fetcher;
\* incrementPostViews, whose cache.delete or cache.list threw, returns the
\* views it read; createComment, whose cache.delete threw, returns the
\* comment it stored -- the results they return when the cache works.
C14_CacheFailureNeverFails ==
  \A r \in Reqs :
    req[r].threw =>
      /\ ~Done(r) => req[r].pc \in {"invalidateCacheByPrefix", "dataFetcher", "setCached"}
      /\ Done(r) =>
           /\ req[r].result.ok
           /\ req[r].op = "withCache" => req[r].result.value = FetchedValue
           /\ req[r].op = "incrementPostViews" =>
                /\ req[r].result.value = [views |-> req[r].local.views]
                /\ req[r].resp.status = 200
           /\ req[r].op = "createComment" =>
                /\ req[r].result.value = req[r].local
                /\ req[r].result.value \in comments
                /\ req[r].resp.status \in {200, 201}

\* A view increment whose cache.delete threw has returned its views, and
\* after it withCache has returned the data fetcher's result for a key that
\* is in the cache: cache.get threw, and so did cache.put, which wrote
\* nothing.
C14_Witness ==
  \E r, s \in Reqs :
    /\ req[r].op = "incrementPostViews" /\ Done(r) /\ req[r].threw
    /\ req[r].resp.status = 200
    /\ PostKey(IntToStr(req[r].id)) \in DOMAIN cache
    /\ req[s].op = "withCache" /\ Done(s) /\ req[s].threw
    /\ req[s].seg \in DOMAIN cache /\ cache[req[s].seg] = CachedValue
    /\ req[s].result = Returned(FetchedValue)

----------------------------------------------------------------------------
(* Properties of the cache key *)

\* The entries of a parameter object, whatever their order.
Entries(params) == {params[i] : i \in 1..Len(params)}

\* C21: generateCacheKey(path, params) depends only on the set of key/value
\* pairs: every order of insertion of the same parameters gives the key
\* path?k=v&k=v with the keys ascending, and no parameter gives the bare
\* path.
C21_KeyIgnoresParameterOrder ==
  \A r \in Reqs :
    (req[r].op = "generateCacheKey" /\ Done(r)) =>
      LET path == req[r].seg
          key == req[r].result.value
          pairs == IF key = path THEN <<>>
                   ELSE Split(SubSeq(key, Len(path) + 2, Len(key)), "&")
      IN /\ StartsWith(key, path)
         /\ req[r].body = <<>> <=> key = path
         /\ key # path => key[Len(path) + 1] = "?"
         /\ Len(pairs) = Len(req[r].body)
         /\ {<<Split(pairs[i], "=")[1], Split(pairs[i], "=")[2]>> : i \in 1..Len(pairs)}
              = Entries(req[r].body)
         /\ \A i, j \in 1..Len(pairs) :
              i < j => LexLess(Split(pairs[i], "=")[1], Split(pairs[j], "=")[1])
         /\ \A other \in ParamObjects :
              Entries(other) = Entries(req[r].body) =>
                generateCacheKey(path, other) = key

\* The key of /posts has been generated from size=10 inserted before page=0:
\* it is /posts?page=0&size=10.
C21_Witness ==
  \E r \in Reqs :
    /\ req[r].op = "generateCacheKey" /\ Done(r)
    /\ req[r].body = <<<<<<"s", "i", "z", "e">>, <<"1", "0">>>>, <<<<"p", "a", "g", "e">>, <<"0">>>>>>
    /\ req[r].result.value = <<"/", "p", "o", "s", "t", "s", "?", "p", "a", "g", "e", "=", "0", "&", "s", "i", "z", "e", "=", "1", "0">>

----------------------------------------------------------------------------
(* Properties of the tag list and of the sitemap *)

\* C24: the tag list holds exactly the tags whose postCount is greater than
\* 0, each once as {id, name, postCount, createdAt} with the values of its
\* row, in ascending alphabetical order of name; a tag whose postCount is 0
\* never appears.
C24_ActiveTagsInOrder ==
  \A r \in Reqs :
    (req[r].op = "getActiveTags" /\ Done(r)) =>
      LET data == req[r].resp.body.data
      IN /\ req[r].resp.status = 200
         /\ \A i \in 1..Len(data) :
              /\ DOMAIN data[i] = {"id", "name", "postCount", "createdAt"}
              /\ data[i].postCount > 0
              /\ \E t \in tags :
                   /\ t.id = data[i].id /\ t.name = data[i].name
                   /\ t.postCount = data[i].postCount /\ t.createdAt = data[i].createdAt
         /\ {data[i].id : i \in 1..Len(data)} = {t.id : t \in {u \in tags : u.postCount > 0}}
         /\ Len(data) = Cardinality({u \in tags : u.postCount > 0})
         /\ \A i, j \in 1..Len(data) : i < j => LexLess(data[i].name, data[j].name)

\* A tag list has been returned with "go" alone, and "js" has no published
\* post.
C24_Witness ==
  \E r \in Reqs :
    /\ req[r].op = "getActiveTags" /\ Done(r)
    /\ Len(req[r].resp.body.data) = 1
    /\ req[r].resp.body.data[1].name = <<"g", "o">>
    /\ \E t \in tags : t.name = <<"j", "s">> /\ t.postCount = 0

\* C25: the sitemap holds the slug of every published post and of no draft,
\* each once, in descending order of createdAt; posts equal in createdAt are
\* in any order.
C25_SitemapOfPublishedSlugs ==
  \A r \in Reqs :
    (req[r].op = "generateSitemap" /\ Done(r)) =>
      LET data == req[r].resp.body.data
          postOf(slug) == CHOOSE p \in DOMAIN posts : posts[p].slug = slug
      IN /\ req[r].resp.status = 200
         /\ {data[i] : i \in 1..Len(data)} =
              {posts[p].slug : p \in {q \in DOMAIN posts : posts[q].state = "published"}}
         /\ \A i, j \in 1..Len(data) : i < j =>
              /\ data[i] # data[j]
              /\ posts[postOf(data[i])].createdAt >= posts[postOf(data[j])].createdAt

\* A sitemap of two published posts created at the same time has been
\* returned with the second post first, and another with the first post
\* first.
C25_Witness ==
  /\ Cardinality(DOMAIN posts) = 2
  /\ posts[1].createdAt = posts[2].createdAt
  /\ \E r, s \in Reqs :
       /\ req[r].op = "generateSitemap" /\ Done(r)
       /\ req[s].op = "generateSitemap" /\ Done(s)
       /\ req[r].resp.body.data = <<posts[2].slug, posts[1].slug>>
       /\ req[s].resp.body.data = <<posts[1].slug, posts[2].slug>>

----------------------------------------------------------------------------
(* Properties of the public surface *)

\* The response of a finished request carries the envelope {success, data,
\* error}: success with error null, or failure with data null and the HTTP
\* status as error.code -- 400 and 404 with the message of the error for a
\* ValidationError and a NotFoundError of the service.
CarriesEnvelope(rec) ==
  /\ DOMAIN rec.resp.body = {"success", "data", "error"}
  /\ IF rec.result.ok
     THEN /\ rec.resp.body.success = TRUE
          /\ rec.resp.body.error = Null
     ELSE /\ rec.resp.body.success = FALSE
          /\ rec.resp.body.data = Null
          /\ rec.resp.body.error.code = rec.resp.status
          /\ rec.result.error.name = "ValidationError" =>
               /\ rec.resp.status = 400
               /\ rec.resp.body.error.message = rec.result.error.message
          /\ rec.result.error.name = "NotFoundError" =>
               /\ rec.resp.status = 404
               /\ rec.resp.body.error.message = rec.result.error.message

\* C22 as stated: every response produced for a request carries the
\* envelope.
C22_EveryResponseEnveloped ==
  \A r \in Reqs : Done(r) => CarriesEnvelope(req[r])

\* C22: every response produced for a request, other than the 301 redirect
\* of a numeric post lookup and the 204 answer to a preflight, which have no
\* body, carries the envelope {success, data, error}: on success
\* success=true and error=null; on failure success=false, data=null and
\* error.code equals the HTTP status, which is 400 for a ValidationError and
\* 404 for a NotFoundError raised in the service layer, with the message of
\* the error unchanged.
C22_ResponsesWithBodyEnveloped ==
  \A r \in Reqs :
    Done(r) =>
      IF req[r].resp.status \in {301, 204}
      THEN /\ req[r].resp.body = Null
           /\ req[r].resp.status = 301 <=>
                (req[r].op = "getPostBySlug" /\ IsNumericId(req[r].seg))
           /\ req[r].resp.status = 204 <=> req[r].op = "options"
      ELSE CarriesEnvelope(req[r])

\* A view increment without a numeric id has been answered 400 and, after
\* it, the list of the comments of a post that is not there 404, each with
\* the message of its error.
C22_Witness ==
  \E r, s \in Reqs :
    /\ Done(r) /\ req[r].op = "incrementPostViews"
    /\ req[r].resp.status = 400
    /\ req[r].resp.body.error.message = MsgInvalidPostId
    /\ Done(s) /\ req[s].op = "getCommentsByPostId"
    /\ req[s].resp.status = 404
    /\ req[s].resp.body.error.message = MsgPostNotFound

\* The operations that only read.
ReadOps == {"getPosts", "getPostBySlug", "getCommentsByPostId", "getActiveTags",
            "generateSitemap", "options"}

\* C23: over the public operations, the only changes of the store are
\* increments by 1 of the views of published posts and insertions of new
\* comments: the slug, title and state of every post, the tags and post_tags
\* tables and every existing comment stay as they are, no post appears or
\* disappears, and a step of a read operation (list, detail, numeric lookup,
\* tags, sitemap, comment list) changes neither the store nor the cache.
C23_OnlyViewsAndNewComments ==
  [][/\ tags' = tags
     /\ postTags' = postTags
     /\ DOMAIN posts' = DOMAIN posts
     /\ \A p \in DOMAIN posts :
          /\ posts'[p].slug = posts[p].slug
          /\ posts'[p].title = posts[p].title
          /\ posts'[p].state = posts[p].state
          /\ posts'[p].createdAt = posts[p].createdAt
          /\ posts'[p].views \in {posts[p].views, posts[p].views + 1}
          /\ posts'[p].views # posts[p].views => posts[p].state = "published"
     /\ comments \subseteq comments'
     /\ \A c \in comments' \ comments : c.id \notin {d.id : d \in comments}
     /\ \A r \in Reqs :
          (req'[r] # req[r] /\ req'[r].op \in ReadOps) =>
            /\ posts' = posts
            /\ comments' = comments
            /\ cache' = cache]_vars

\* The views of a published post have been incremented and, after it, a
\* comment has been inserted.
C23_Witness ==
  \E r, s \in Reqs :
    /\ Done(r) /\ req[r].op = "incrementPostViews" /\ req[r].resp.status = 200
    /\ posts[req[r].id].views = views0[req[r].id] + 1
    /\ Done(s) /\ req[s].op = "createComment" /\ req[s].result.ok
    /\ comments # {}

----------------------------------------------------------------------------
(* Properties of the stored comments *)

\* C27: every comment the service persisted has a stored content of 1 to 500
\* characters and a stored authorName of 2 to 20 characters, whatever
\* whitespace the accepted body had around its fields.
C27_StoredLengthsWithinLimits ==
  \A c \in comments :
    /\ UntrimmedLength(c.content) \in ContentMinLength..ContentMaxLength
    /\ UntrimmedLength(c.authorName) \in AuthorMinLength..AuthorMaxLength

----------------------------------------------------------------------------
(* The admin service: an external writer of the same store *)

\* The triggers of the store: post_count of every tag follows the posts and
\* the links written.
Recount(tagRows, table, links) ==
  {[t EXCEPT !.postCount = PostCount(table, links, t.id)] : t \in tagRows}

\* The admin service takes a published post back to draft.
AdminUnpublishPost(p) ==
  /\ p \in DOMAIN posts /\ posts[p].state = "published"
  /\ posts' = [posts EXCEPT ![p].state = "draft"]
  /\ tags' = Recount(tags, posts', postTags)
  /\ UNCHANGED <<postTags, comments, cache, config, clock, req>>

\* The admin service publishes a draft.
AdminPublishPost(p) ==
  /\ p \in DOMAIN posts /\ posts[p].state = "draft"
  /\ posts' = [posts EXCEPT ![p].state = "published"]
  /\ tags' = Recount(tags, posts', postTags)
  /\ UNCHANGED <<postTags, comments, cache, config, clock, req>>

\* The admin service deletes a post.
AdminDeletePost(p) ==
  /\ p \in DOMAIN posts
  /\ posts' = [i \in DOMAIN posts \ {p} |-> posts[i]]
  /\ tags' = Recount(tags, posts', postTags)
  /\ UNCHANGED <<postTags, comments, cache, config, clock, req>>

\* The admin service takes tag t off post p.
AdminUntagPost(p, t) ==
  /\ [postId |-> p, tagId |-> t] \in postTags
  /\ postTags' = postTags \ {[postId |-> p, tagId |-> t]}
  /\ tags' = Recount(tags, posts, postTags')
  /\ UNCHANGED <<posts, comments, cache, config, clock, req>>

\* The bodies of the comments created beside the admin writes.
AdminBodies ==
  {[content |-> <<"x">>, author |-> <<"a", "b">>],
   [content |-> <<>>, author |-> <<"a", "b">>]}

\* Comment creations with admin writes taking place between their steps.
InitAdminComments == InitStore(DefaultSlugTables({0}))

NextAdminComments ==
  \/ \E r \in Reqs, postId \in CommentPostIdInputs, body \in AdminBodies :
       StartCreateComment(r, postId, body)
  \/ \E r \in Reqs : CreateStep(r)
  \/ \E r \in Reqs : InvalidateCommentCacheStep(r)
  \/ \E p \in PostIds : AdminUnpublishPost(p)
  \/ \E p \in PostIds : AdminDeletePost(p)

SpecAdminComments == InitAdminComments /\ [][NextAdminComments]_vars

----------------------------------------------------------------------------
(* Properties of comment creation beside admin writes *)

\* C26: every comment createComment inserts references a post that exists
\* and is published in the store at the moment of the insert, whatever admin
\* writes take place between the steps of createComment.
C26_InsertedOnPublishedPost ==
  [][\A c \in comments' \ comments : postExists(posts, c.postId)]_vars

----------------------------------------------------------------------------
(* withCache over data fetchers that read the store *)

\* dataFetcher: the comments of the post the key names, as the store holds
\* them when the fetcher runs.
FetchCommentsStep(r) ==
  /\ req[r].op = "withCache" /\ req[r].pc = "dataFetcher"
  /\ \E p \in PostIds :
       /\ req[r].seg = CommentsKey(p)
       /\ LET data == [comments |-> {c \in comments : c.postId = p}]
          IN req' = [req EXCEPT ![r] =
               IF hasCache THEN [@ EXCEPT !.pc = "setCached", !.local = data]
               ELSE FinishedWith([@ EXCEPT !.local = data], Returned(data), NoResponse)]
  /\ UNCHANGED <<store, cache, config, clock>>

\* dataFetcher: the view counter of the post the key names, as the store
\* holds it when the fetcher runs.
FetchViewsStep(r) ==
  /\ req[r].op = "withCache" /\ req[r].pc = "dataFetcher"
  /\ \E p \in DOMAIN posts :
       /\ req[r].seg = PostKey(IntToStr(p))
       /\ LET data == [views |-> posts[p].views]
          IN req' = [req EXCEPT ![r] =
               IF hasCache THEN [@ EXCEPT !.pc = "setCached", !.local = data]
               ELSE FinishedWith([@ EXCEPT !.local = data], Returned(data), NoResponse)]
  /\ UNCHANGED <<store, cache, config, clock>>

\* The keys the two writes invalidate.
RaceKeys == {CommentsKey(p) : p \in PostIds} \cup {PostKey(IntToStr(p)) : p \in PostIds}

\* A read through withCache beside a view increment or a comment creation.
\* The cache is bound or not; a bound cache holds every key or none.
InitCacheRace ==
  /\ posts \in DefaultSlugTables({0})
  /\ tags = {}
  /\ postTags = {}
  /\ comments = {}
  /\ hasCache \in BOOLEAN
  /\ cache \in {[k \in K |-> CachedValue] :
                  K \in (IF hasCache THEN {{}, CacheKeys(posts)} ELSE {{}})}
  /\ clock = 0
  /\ req = [r \in Reqs |-> IdleReq]
  /\ views0 = [i \in DOMAIN posts |-> posts[i].views]

NextCacheRace ==
  \/ \E key \in RaceKeys : StartWithCache(1, key, FALSE)
  \/ FetchCommentsStep(1)
  \/ FetchViewsStep(1)
  \/ SetCachedStep(1, FALSE)
  \/ \E p \in PostIds : StartIncrement(2, IntToStr(p))
  \/ GetViewsStep(2)
  \/ InvalidatePostKeyStep(2)
  \/ InvalidatePostListStep(2)
  \/ \E p \in PostIds, body \in AdminBodies : StartCreateComment(2, IntToStr(p), body)
  \/ CreateStep(2)
  \/ InvalidateCommentCacheStep(2)

SpecCacheRace == InitCacheRace /\ [][NextCacheRace]_vars

----------------------------------------------------------------------------
(* Properties of withCache beside writes *)

\* C28: once a view increment or a comment creation and its invalidation
\* have completed, the cache holds under the invalidated key no value that
\* was computed from the store as it was before the write: a cached comment
\* list holds the created comment, a cached view counter is above the
\* counter the post had before the increment.
C28_NoStaleValueAfterInvalidation ==
  \A w \in Reqs :
    /\ Created(w) =>
         LET key == CommentsKey(req[w].id)
         IN key \in DOMAIN cache =>
              /\ "comments" \in DOMAIN cache[key]
              /\ req[w].result.value \in cache[key].comments
    /\ (req[w].op = "incrementPostViews" /\ Done(w) /\ req[w].result.ok) =>
         LET key == PostKey(IntToStr(req[w].id))
         IN key \in DOMAIN cache =>
              /\ "views" \in DOMAIN cache[key]
              /\ cache[key].views > views0[req[w].id]

----------------------------------------------------------------------------
(* Successive pages of one list *)

\* The numbers of the pages asked for after page 0.
LaterPages == {<<"1">>, <<"2">>}

\* Page 0 of a list, then a later page of the same tag, size and sort, the
\* store staying as it is.
InitPages == InitList

\* GET /posts?page=0 with a tag, a size and a sort.
StartFirstPage(r, query) ==
  /\ query["page"] = <<"0">>
  /\ StartGetPosts(r, query)

\* After the first page has been answered: the same request for a later page.
StartLaterPage(r, page) ==
  /\ req[1].op = "getPosts" /\ Done(1)
  /\ StartGetPosts(r, [req[1].query EXCEPT !["page"] = page])

NextPages ==
  \/ \E query \in ValidQueries : StartFirstPage(1, query)
  \/ \E page \in LaterPages : StartLaterPage(2, page)
  \/ \E r \in Reqs : FindAllStep(r)
  \/ \E r \in Reqs : GetTagsForPostsStep(r)

SpecPages == InitPages /\ [][NextPages]_vars

----------------------------------------------------------------------------
(* Properties of successive pages *)

\* The ids of the posts on the page request r returned.
PageIds(r) ==
  {req[r].resp.body.data.content[i].id : i \in 1..Len(req[r].resp.body.data.content)}

Answered(r) == IsGetPosts(req[r]) /\ Done(r) /\ req[r].result.ok

\* C30: over a store that does not change, two different pages of the same
\* tag, sort and size hold no post in common, also when posts are equal in
\* the sort field; pages 0 and 1 together hold exactly the matching
\* published posts when there are at most 2*size of them; and a page at or
\* beyond ceil(totalElements/size) is empty.
C30_PagesPartitionTheList ==
  \A a, b \in Reqs :
    (a < b /\ Answered(a) /\ Answered(b)) =>
      LET q == req[b].query
          size == SizeOf(q).val
          total == req[b].resp.body.data.totalElements
      IN /\ PageIds(a) \cap PageIds(b) = {}
         /\ (PageOf(q).val = 1 /\ total <= 2 * size) =>
              PageIds(a) \cup PageIds(b) = Filtered(TagOf(q))
         /\ PageOf(q).val * size >= total => PageIds(b) = {}

----------------------------------------------------------------------------
(* GET /posts beside admin writes: the statements of getPosts one by one *)

\* The rows findAll returns for the ids, read from table.
RowsOf(table, ids) ==
  [i \in 1..Len(ids) |->
     [id |-> ids[i], slug |-> table[ids[i]].slug, title |-> table[ids[i]].title,
      createdAt |-> table[ids[i]].createdAt, updatedAt |-> table[ids[i]].updatedAt,
      views |-> table[ids[i]].views]]

\* Promise.all([findAll(...), count(tag)]): the statement of findAll, run
\* before or after that of count.  tagsAtRead records, for the properties,
\* the tags each row had when the page was read.
FindAllQuery(r) ==
  /\ req[r].op = "getPosts" /\ req[r].pc \in {"findAll", "findAllOnly"}
  /\ LET a == req[r].local
     IN IF ~ValidOrder(OrderClause(a.sort))
        THEN req' = [req EXCEPT ![r] =
               Finished([@ EXCEPT !.queries = @ + 1], Thrown(Error(MsgSqlError)))]
        ELSE
        \E ids \in findAll(posts, tags, postTags, a.tag, a.page * a.size, a.size,
                           OrderClause(a.sort)) :
          LET tagsAtRead == [i \in 1..Len(ids) |-> getTagsForPost(tags, postTags, ids[i])]
          IN req' = [req EXCEPT ![r] =
               [@ EXCEPT !.queries = @ + 1,
                         !.pc = IF @ = "findAll" THEN "count" ELSE "getTagsForPosts",
                         !.local =
                           IF req[r].pc = "findAll"
                           THEN [tag |-> a.tag, page |-> a.page, size |-> a.size,
                                 rows |-> RowsOf(posts, ids), tagsAtRead |-> tagsAtRead]
                           ELSE [tag |-> a.tag, page |-> a.page, size |-> a.size,
                                 rows |-> RowsOf(posts, ids), tagsAtRead |-> tagsAtRead,
                                 totalElements |-> a.totalElements]]]
  /\ UNCHANGED <<store, cache, config, clock>>

\* Promise.all([findAll(...), count(tag)]): the statement of count, run
\* before or after that of findAll.
CountQuery(r) ==
  /\ req[r].op = "getPosts" /\ req[r].pc \in {"findAll", "count"}
  /\ LET a == req[r].local
         total == count(posts, tags, postTags, a.tag)
     IN req' = [req EXCEPT ![r] =
          [@ EXCEPT !.queries = @ + 1,
                    !.pc = IF @ = "findAll" THEN "findAllOnly" ELSE "getTagsForPosts",
                    !.local =
                      IF req[r].pc = "findAll"
                      THEN [tag |-> a.tag, page |-> a.page, size |-> a.size,
                            sort |-> a.sort, totalElements |-> total]
                      ELSE [tag |-> a.tag, page |-> a.page, size |-> a.size,
                            rows |-> a.rows, tagsAtRead |-> a.tagsAtRead,
                            totalElements |-> total]]]
  /\ UNCHANGED <<store, cache, config, clock>>

\* The list requests made beside the admin writes.
AdminListQueries ==
  {q \in ValidQueries :
     /\ q["tag"] \in {<<>>, <<"g", "o">>}
     /\ q["sort"] = <<"c", "r", "e", "a", "t", "e", "d", "A", "t", ",", "d", "e", "s", "c">>}

\* The request is between its first statement and its answer.
InFlight(r) == req[r].op # "idle" /\ ~Done(r)

\* One list request, with admin writes taking place between its statements.
InitAdminList == InitList

NextAdminList ==
  \/ \E query \in AdminListQueries : StartGetPosts(1, query)
  \/ FindAllQuery(1)
  \/ CountQuery(1)
  \/ GetTagsForPostsStep(1)
  \/ \E p \in PostIds : InFlight(1) /\ AdminUnpublishPost(p)
  \/ \E p \in PostIds : InFlight(1) /\ AdminPublishPost(p)
  \/ \E p \in PostIds : InFlight(1) /\ AdminDeletePost(p)
  \/ \E p \in PostIds, t \in DOMAIN TagNames : InFlight(1) /\ AdminUntagPost(p, t)

SpecAdminList == InitAdminList /\ [][NextAdminList]_vars

----------------------------------------------------------------------------
(* Properties of the list beside admin writes *)

\* C29: whatever admin writes take place between the statements of one
\* getPosts request, its response has at most max(0, totalElements -
\* page*size) posts in content, and the tags attached to each post are the
\* tags the post had when the page was read.
C29_ResponseConsistentWithItself ==
  \A r \in Reqs :
    Answered(r) =>
      LET data == req[r].resp.body.data
          rest == data.totalElements - data.pageNumber * data.pageSize
      IN /\ Len(data.content) <= (IF rest > 0 THEN rest ELSE 0)
         /\ \A i \in 1..Len(data.content) :
              data.content[i].tags = req[r].local.tagsAtRead[i]

====
